---- MODULE Spec2Model ----
(***************************************************************************)
(* State-machine model of standalone-agent.js: the aggregation engine,     *)
(* policy evaluation, the trade lifecycle (executeBuy / executeSell /      *)
(* checkTradeBalances), the submission layer (sendTransactionWithRetry)    *)
(* and the control-server handlers that start trades.                      *)
(*                                                                         *)
(* Numbers.  JavaScript floats are modelled as fixed-point integers:       *)
(*   prices in hundredths (130 = 1.30), readable token / ETH amounts in    *)
(*   millionths (5000 = 0.005).  Raw on-chain amounts (BigInt) are plain   *)
(*   integers.  Token decimals are scaled down so that 10^decimals fits    *)
(*   the model checker's integers: the 18 decimals of ether are 6 here.    *)
(*                                                                         *)
(* Asynchrony.  The process is single-threaded: the code between two       *)
(*   awaits is one step.  Every executeBuy / executeSell call and the      *)
(*   checkTradeBalances run keep their position and locals in `running`    *)
(*   and `recon`; trade objects live in `heap` because a call keeps a      *)
(*   reference to its trade object even after activeTrades dropped it.     *)
(*                                                                         *)
(* Environment.  The chain is the wallet's transaction count, the traded   *)
(*   token balances and the allowances granted.  Spec takes allowance      *)
(*   reads that succeed and transaction outcomes confirmed / nonce too low *)
(*   / non-recoverable; SpecScenario also takes failing allowance reads    *)
(*   and network errors.                                                   *)
(***************************************************************************)
EXTENDS Integers, Sequences, FiniteSets, TLC

\* ------------------------------------------------------------------ bounds
MaxStimuli == 3          \* feed events, control requests and reconciliation runs handled

\* ------------------------------------------------- program constants
MaxEthPerTrade == 5000   \* DEFAULT_CONFIG.maxEthPerTrade = 0.005, in millionths
DefaultGroupInterval == 1
DefaultMaxGroups == 60
DefaultMaxPositions == 5 \* DEFAULT_CONFIG.maxPositions
MaxRetries == 3          \* sendTransactionWithRetry(txFn, maxRetries = 3)
EtherDecimals == 6       \* parseEther / default "|| 18" decimals, scaled down
ReadableDecimals == 6    \* fixed-point scale of readable amounts (millionths)

Pairs == {"0xa", "0xb"}

\* What the feed reports for each pair (processPairUpdate copies it into the
\* normalized event): protocol, token order and the two tokens' decimals.
\* "0xa" is a V3 pool whose token0 is the base token, "0xb" a V4 pool whose
\* token1 is the base token; the traded token has 4 decimals.
\* decimals() of each token contract
TokenDecimals == [weth |-> EtherDecimals, tokA |-> 4, tokB |-> 4]

\* Object.keys order of the pairs
PairOrder == <<"0xa", "0xb">>

PairMeta ==
  [p \in Pairs |->
     IF p = "0xa"
       THEN [isV3 |-> TRUE, isV4 |-> FALSE, isV2 |-> FALSE,
             token0 |-> "weth", token1 |-> "tokA", tokenAddress |-> "tokA",
             token0Decimals |-> EtherDecimals, token1Decimals |-> 4]
       ELSE [isV3 |-> FALSE, isV4 |-> TRUE, isV2 |-> FALSE,
             token0 |-> "tokB", token1 |-> "weth", tokenAddress |-> "tokB",
             token0Decimals |-> 4, token1Decimals |-> EtherDecimals]]

\* The chain identifier the feed reports each pair on.
PairChain == [p \in Pairs |-> IF p = "0xa" THEN "base_v3" ELSE "base_v4"]

\* isV3 = chain.includes("v3"); isV4 = chain.includes("v4");
\* isV2 = !isV3 && !isV4   -- processPairUpdate lines 346-348
ChainFlags(chain) ==
  [isV3 |-> chain = "base_v3", isV4 |-> chain = "base_v4",
   isV2 |-> chain \notin {"base_v3", "base_v4"}]

\* ------------------------------------------------------------ helpers
Min(a, b) == IF a < b THEN a ELSE b
Max(a, b) == IF a > b THEN a ELSE b
Restrict(f, S) == [x \in S |-> f[x]]
Remove(s, i) == [j \in 1..(Len(s) - 1) |-> IF j < i THEN s[j] ELSE s[j + 1]]

RECURSIVE Pow10(_)
Pow10(n) == IF n <= 0 THEN 1 ELSE 10 * Pow10(n - 1)

\* parseFloat(formatTokenAmount(amountBig, decimals)): amount / 10^decimals,
\* as a fixed-point number with ReadableDecimals fractional digits.
FormatTokenAmount(amountBig, decimals) ==
  IF decimals <= ReadableDecimals
    THEN amountBig * Pow10(ReadableDecimals - decimals)
    ELSE amountBig \div Pow10(decimals - ReadableDecimals)

\* ethers.parseEther(ethAmount.toFixed(18)): readable ETH to raw units.
ParseEther(ethAmount) == ethAmount * Pow10(EtherDecimals - ReadableDecimals)

\* detectBaseToken: ZORA, else CLANKER, else WETH.
DetectBaseToken(token0, token1) ==
  IF token0 = "zora" \/ token1 = "zora" THEN "zora"
  ELSE IF token0 = "clanker" \/ token1 = "clanker" THEN "clanker"
  ELSE "weth"

\* --------------------------------------------------------------- state
VARIABLES
  config,            \* the loaded config object
  paused,            \* let paused
  computedPairData,  \* pair -> PairState (with its groups)
  activeTrades,      \* pair -> reference (heap id) of the ActiveTrade object
  heap,              \* heap id -> the trade object it refers to
  inactiveTrades,    \* array of closed trade records
  executing,         \* per-pair async lock
  running,           \* pair -> the executeBuy/executeSell calls in flight on it
  recon,             \* the checkTradeBalances run in progress, if any
  chainNonce,        \* the wallet's transaction count as the RPC reports it
  chainBalance,      \* pair -> on-chain balance of the traded token (raw)
  approved,          \* on-chain allowances granted: <<token, spender>> pairs
  tradeLog,          \* the append-only trade log file: line count and last line
  snapshot,          \* the trades snapshot file
  totalUpdateCount,  \* marketData events received
  pairCustomData,    \* pairCustomData: the customData object of each pair that has one
  compiledFuncs,     \* compiledFuncs: the keys that hold a compiled predicate
  compileErrors,     \* "[POLICY] Compile error" lines this process has logged
  requestCount,      \* control requests and reconciliation runs handled
  response           \* the last response the control server sent

vars == <<config, paused, computedPairData, activeTrades, heap, inactiveTrades,
          executing, running, recon, chainNonce, chainBalance, approved,
          tradeLog, snapshot, totalUpdateCount, pairCustomData, compiledFuncs,
                 compileErrors, requestCount, response>>

ObjIds == 1..(2 * Cardinality(Pairs) + 1)

\* ------------------------------------------------------------ policies
\* A predicate's return value: boolean, number or NaN (anything else acts as
\* "no action").
RetFalse == [t |-> "bool", v |-> 0]
RetTrue == [t |-> "bool", v |-> 1]
RetNum(n) == [t |-> "num", v |-> n]
RetNaN == [t |-> "nan", v |-> 0]

\* Mutation of ActionValue: a numeric result taken as it is, without the clamp.
ActionValueUnclamped(result) ==
  IF result.t = "bool" THEN (IF result.v = 1 THEN 100 ELSE 0)
  ELSE IF result.t = "num" THEN result.v
  ELSE 0

\* result === true ? 100 : (typeof result === "number" ? clamp(result,0,100) : 0)
\* NaN survives the clamp and then fails "actionValue > 0".
ActionValue(result) ==
  IF result.t = "bool" THEN (IF result.v = 1 THEN 100 ELSE 0)
  ELSE IF result.t = "num" THEN Min(Max(result.v, 0), 100)
  ELSE 0

\* The return values a predicate source can produce on a context.  "any" is
\* a user predicate returning false, 50 or true, "count" one that adds one to
\* ctx.customData.n and returns false, "enter" one returning false
\* or true, "values" one returning any of false, 0, 50, 100, true, 150, -10
\* and NaN; "breakout25"/"breakout50" return 100 when
\* ctx.group.price_change_pct exceeds the threshold.
AnyResults == {RetFalse, RetNum(50), RetTrue}
ValueResults ==
  {RetFalse, RetNum(0), RetNum(50), RetNum(100), RetTrue, RetNum(150), RetNum(0 - 10),
   RetNaN}
EnterResults == {RetFalse, RetTrue}

BreakoutResult(ctx, threshold) ==
  IF ctx.group.price_change * 100 > threshold * ctx.group.first_price
    THEN RetNum(100) ELSE RetFalse

PredicateResults(func, ctx) ==
  IF func = "any" THEN AnyResults
  ELSE IF func = "enter" THEN EnterResults
  ELSE IF func = "values" THEN ValueResults
  ELSE IF func = "breakout25" THEN {BreakoutResult(ctx, 25)}
  ELSE IF func = "breakout50" THEN {BreakoutResult(ctx, 50)}
  ELSE IF func = "count" THEN {RetFalse}
  ELSE {RetFalse}   \* "none", "broken": no predicate runs, nothing can fire

AnyPolicy == [id |-> "p1", entryFunc |-> "enter", exitFunc |-> "any"]

DefaultConfig(maxPositions, policies) ==
  [maxEthPerTrade |-> MaxEthPerTrade, maxPositions |-> maxPositions,
   groupInterval |-> DefaultGroupInterval, maxGroups |-> DefaultMaxGroups,
   policies |-> policies]

\* buildContext, reduced to the fields the modelled predicates read.
BuildContext(cpd, pairAddress, groupKey, tradeRef) ==
  [group |-> cpd[pairAddress].groups[groupKey], trade |-> tradeRef]


\* ------------------------------------------------ aggregation engine
\* parseFloat of a text that holds no number.  NaN is carried as a value
\* outside the range of every price and price difference of the model; the
\* program's comparisons and its subtraction go through the operators below,
\* which treat it as JavaScript does.
NaN == 0 - 1000000

\* a > b, a < b and a <= b on numbers: false as soon as one side is NaN.
GreaterThan(a, b) == a # NaN /\ b # NaN /\ a > b
LessThan(a, b) == a # NaN /\ b # NaN /\ a < b
LessOrEqual(a, b) == a # NaN /\ b # NaN /\ a <= b

NewGroup(price, groupKey) ==
  [first_price |-> price, last_price |-> price, min_price |-> price,
   max_price |-> price, price_change |-> 0, price_change_pct |-> 0,
   buy_volume |-> 0, sell_volume |-> 0, total_volume |-> 0,
   buy_count |-> 0, sell_count |-> 0, volatility |-> 0, groupKey |-> groupKey]

\* Mutation of PriceChange: the change measured from zero.
PriceChangeFromZero(last_price, first_price) == last_price

\* group.price_change = last_price - first_price (when first_price > 0)
PriceChange(last_price, first_price) ==
  IF last_price = NaN \/ first_price = NaN THEN NaN ELSE last_price - first_price

\* "Update group OHLCV" .. "Volatility": one event folded into its group.
UpdateGroup(g, ev) ==
  LET bv == g.buy_volume + ev.buy_volume
      sv == g.sell_volume + ev.sell_volume
      change == IF GreaterThan(g.first_price, 0)
                  THEN PriceChange(ev.last_price, g.first_price)
                  ELSE g.price_change
  IN [g EXCEPT
        !.last_price = ev.last_price,
        !.max_price = IF GreaterThan(ev.last_price, g.max_price)
                        THEN ev.last_price ELSE g.max_price,
        !.min_price = IF LessThan(ev.last_price, g.min_price)
                        THEN ev.last_price ELSE g.min_price,
        !.buy_volume = bv,
        !.sell_volume = sv,
        !.total_volume = bv + sv,
        !.buy_count = IF ev.buy_volume > 0 THEN g.buy_count + 1 ELSE g.buy_count,
        !.sell_count = IF ev.sell_volume > 0 THEN g.sell_count + 1 ELSE g.sell_count,
        !.price_change = change,
        !.price_change_pct = IF GreaterThan(g.first_price, 0)
                               THEN (IF change = NaN THEN NaN
                                     ELSE (change * 100) \div g.first_price)
                               ELSE g.price_change_pct,
        !.volatility = IF ev.liquidity > 0
                         THEN ((bv + sv) * 100) \div ev.liquidity
                         ELSE g.volatility]

GroupKeyOf(minuteKey, groupInterval) == (minuteKey \div groupInterval) * groupInterval

NewPairData(ev, groupKey) ==
  [groups |-> <<>>, pairAddress |-> ev.pairAddress,
   meta |-> [PairMeta[ev.pairAddress] EXCEPT
               !.isV3 = ChainFlags(ev.chain).isV3,
               !.isV4 = ChainFlags(ev.chain).isV4,
               !.isV2 = ChainFlags(ev.chain).isV2],
   last_price |-> ev.last_price, liquidity |-> ev.liquidity,
   last_group_key |-> groupKey]

\* integrateNewData up to "pairData.last_group_key = groupKey": the new
\* computedPairData.
IntegrateNewData(cpd, ev, groupKey) ==
  LET p == ev.pairAddress
      old == IF p \in DOMAIN cpd THEN cpd[p] ELSE NewPairData(ev, groupKey)
      g0 == IF groupKey \in DOMAIN old.groups
              THEN old.groups[groupKey]
              ELSE NewGroup(ev.last_price, groupKey)
      pd == [old EXCEPT
               !.last_price = ev.last_price,
               !.liquidity = ev.liquidity,
               !.groups = (groupKey :> UpdateGroup(g0, ev)) @@ old.groups,
               !.last_group_key = groupKey]
  IN (p :> pd) @@ cpd

\* ------------------------------------------------------- trade objects
Undefined == "undefined"

\* updateActiveTradeData(trade, pairData)
UpdateActiveTradeData(trade, pairData) ==
  IF pairData.last_price = 0 THEN trade
  ELSE
    LET cur == pairData.last_price IN
    [trade EXCEPT
       !.price_change_pct = IF trade.entry_price > 0
                              THEN ((cur - trade.entry_price) * 100) \div trade.entry_price
                              ELSE trade.price_change_pct,
       !.current_price = cur,
       !.min_price_since_entry =
          IF trade.min_price_since_entry = 0 \/ cur < trade.min_price_since_entry
            THEN cur ELSE trade.min_price_since_entry,
       !.max_price_since_entry =
          IF trade.max_price_since_entry = 0 \/ cur > trade.max_price_since_entry
            THEN cur ELSE trade.max_price_since_entry,
       !.current_eth_value =
          IF trade.tokens_in_possession # 0 /\ cur > 0
            THEN (trade.tokens_in_possession * cur) \div 100
            ELSE trade.current_eth_value]

\* const ethAmount = config.maxEthPerTrade * (actionPercent / 100)
EthAmount(cfg, actionPercent) == (cfg.maxEthPerTrade * actionPercent) \div 100

\* The decimals every swap path formats its output with:
\* isToken0In ? (token1Decimals || 18) : (token0Decimals || 18)
SwapOutputDecimals(md, isToken0In) ==
  IF isToken0In
    THEN (IF md.token1Decimals = 0 THEN EtherDecimals ELSE md.token1Decimals)
    ELSE (IF md.token0Decimals = 0 THEN EtherDecimals ELSE md.token0Decimals)

\* The ActiveTrade record executeBuy creates.
NewTrade(cfg, pairData, policy_id, actionPercent, amountOut) ==
  LET md == pairData.meta
      base == DetectBaseToken(md.token0, md.token1)
      isToken0In == md.token0 = base
      tokensBought == FormatTokenAmount(amountOut, SwapOutputDecimals(md, isToken0In))
      ethAmount == EthAmount(cfg, actionPercent)
  IN [pairAddress |-> pairData.pairAddress, policy_id |-> policy_id,
      token0 |-> md.token0, token1 |-> md.token1, tokenAddress |-> md.tokenAddress,
      baseToken |-> base, isV2 |-> md.isV2, isV3 |-> md.isV3, isV4 |-> md.isV4,
      token0Decimals |-> md.token0Decimals, token1Decimals |-> md.token1Decimals,
      entry_price |-> pairData.last_price, eth_spent |-> ethAmount, eth_sold |-> 0,
      tokens_bought |-> tokensBought, tokens_in_possession |-> tokensBought,
      tokens_in_possession_hex |-> amountOut,
      current_price |-> pairData.last_price, price_change_pct |-> 0,
      min_price_since_entry |-> pairData.last_price,
      max_price_since_entry |-> pairData.last_price,
      current_eth_value |-> ethAmount]

\* Mutation of RealizedPnl: the proceeds without the cost.
RealizedPnlGross(trade) == trade.eth_sold

\* realized PnL of an archived trade: eth_sold - eth_spent
RealizedPnl(trade) == trade.eth_sold - trade.eth_spent

\* Mutation of Archived: a record whose realized PnL leaves out the proceeds.
ArchivedCostOnly(trade, close_reason) ==
  [trade |-> trade,
   exit_price |-> trade.current_price,
   realized_pnl_eth |-> 0 - trade.eth_spent,
   realized_pnl_pct |-> IF trade.eth_spent > 0 THEN 0 - 100 ELSE 0,
   close_reason |-> close_reason]

\* The record pushed to inactiveTrades: { ...trade, exit_price, realized_pnl_eth,
\* realized_pnl_pct [, close_reason] }.  A record pushed without close_reason
\* carries Undefined there.
Archived(trade, close_reason) ==
  [trade |-> trade,
   exit_price |-> trade.current_price,
   realized_pnl_eth |-> RealizedPnl(trade),
   realized_pnl_pct |-> IF trade.eth_spent > 0
                          THEN (RealizedPnl(trade) * 100) \div trade.eth_spent
                          ELSE 0,
   close_reason |-> close_reason]

\* GET /trades: close_reason: t.close_reason || "policy_exit"
ReportedCloseReason(rec) ==
  IF rec.close_reason = Undefined THEN "policy_exit" ELSE rec.close_reason

\* The trade state: each open position's trade object under its pair address,
\* and the array of closed records.
TradeState(at, h, inact) ==
  [activeTrades |-> [p \in DOMAIN at |-> h[at[p]]], inactiveTrades |-> inact]

\* JSON.stringify leaves out a property whose value is undefined, and reading
\* a property the parsed object does not have yields undefined.
StringifyRecord(rec) ==
  IF rec.close_reason = Undefined THEN Restrict(rec, DOMAIN rec \ {"close_reason"})
  ELSE rec

ParseRecord(obj) ==
  IF "close_reason" \in DOMAIN obj THEN obj
  ELSE [k \in DOMAIN obj \cup {"close_reason"} |->
          IF k = "close_reason" THEN Undefined ELSE obj[k]]

\* computeSummary, reduced to its two counts.
ComputeSummary(at, inact) ==
  [open_trades |-> Cardinality(DOMAIN at), closed_trades |-> Len(inact)]

\* The snapshot file: absent, holding a complete JSON text, or holding what
\* an interrupted writeFileSync left (nothing, or the beginning of a text),
\* which JSON.parse rejects.
NoFile == [exists |-> FALSE, complete |-> TRUE, json |-> <<>>]
File(json) == [exists |-> TRUE, complete |-> TRUE, json |-> json]
Truncated == [exists |-> TRUE, complete |-> FALSE, json |-> <<>>]

\* Mutation of StructuredFormat: a format test that takes a snapshot without
\* open positions for the old flat format.
StructuredWhenNonEmpty(saved) ==
  "activeTrades" \in DOMAIN saved /\ DOMAIN saved.activeTrades # {}

\* saved.activeTrades && typeof saved.activeTrades === "object" &&
\* !Array.isArray(saved.activeTrades)  -- loadTrades line 200
StructuredFormat(saved) == "activeTrades" \in DOMAIN saved

\* saveTrades: the file JSON.stringify({activeTrades, inactiveTrades, summary})
\* writes.
SaveTrades(at, h, inact) ==
  File([activeTrades |-> [p \in DOMAIN at |-> h[at[p]]],
        inactiveTrades |-> [k \in 1..Len(inact) |-> StringifyRecord(inact[k])],
        summary |-> ComputeSummary(at, inact)])

\* Mutation of LegacyKeys: the flat format read without skipping "summary".
LegacyKeysAll(saved) == DOMAIN saved

\* for (const [pairAddress, trade] of Object.entries(saved)) {
\*   if (pairAddress === "summary") continue;   -- loadTrades lines 212-216
LegacyKeys(saved) == DOMAIN saved \ {"summary"}

\* loadTrades into a process whose activeTrades and inactiveTrades are empty:
\* the trade state afterwards.  A text JSON.parse rejects ends in the catch
\* (lines 220-222) with nothing loaded.
LoadTrades(file) ==
  IF ~file.exists \/ ~file.complete
    THEN [activeTrades |-> <<>>, inactiveTrades |-> <<>>]
  ELSE LET saved == file.json
       IN IF StructuredFormat(saved)
            THEN [activeTrades |-> saved.activeTrades,
                  inactiveTrades |->
                    IF "inactiveTrades" \in DOMAIN saved
                      THEN [k \in 1..Len(saved.inactiveTrades) |->
                              ParseRecord(saved.inactiveTrades[k])]
                      ELSE <<>>]
            ELSE [activeTrades |-> Restrict(saved, LegacyKeys(saved)),
                  inactiveTrades |-> <<>>]

\* The trade log is append-only and never read back by the agent; the model
\* keeps the number of lines written and the last line.
NoLine == [type |-> "none", status |-> "none", pairAddress |-> "none",
           policy_id |-> "none", action_percent |-> 0]
EmptyTradeLog == [len |-> 0, last |-> NoLine]

\* appendTradeLog(entry), for the lines one step writes (none or one)
AppendTradeLog(log, lines) ==
  IF Len(lines) = 0 THEN log
  ELSE [len |-> log.len + Len(lines), last |-> lines[Len(lines)]]

\* appendTradeLog entry
LogEntry(type, status, pairAddress, policy_id, actionPercent) ==
  [type |-> type, status |-> status, pairAddress |-> pairAddress,
   policy_id |-> policy_id, action_percent |-> actionPercent]


\* ------------------------------------------------ in-flight actions
\* One executeBuy / executeSell call between its first and last await.
\*   stage: "balance" (sell: balanceOf), "approve" (approveToken),
\*          "permit2" (approvePermit2ToRouter), "swap" (performSwap)
\*   pc:    "read"      awaiting balanceOf
\*          "allowance" awaiting the allowance read of an approval
\*          "nonce"     sendTransactionWithRetry awaiting wallet.getNonce()
\*          "send"      txFn(currentNonce) called, awaiting its outcome
\*          "renonce"   awaiting wallet.getNonce("latest") after a nonce error
\* `request` is the control request awaiting the call: the pairs a POST
\* /sell-all mapped over, none for every other caller.  executeBuy holds a
\* reference to the PairState object it was given: that is computedPairData[p]
\* until cleanupOldGroups deletes the entry, and from then on (`detached`) an
\* object nothing else updates, `pairData`.
NoRequest == [id |-> 0, pairs |-> <<>>]

Task(kind, src, policy_id, actionPercent, stage, pc, amountIn, trade) ==
  [kind |-> kind, src |-> src, policy_id |-> policy_id,
   actionPercent |-> actionPercent, stage |-> stage, pc |-> pc,
   attempts |-> 0, currentNonce |-> 0, lastError |-> "none", amountIn |-> amountIn,
   trade |-> trade, actualBalance |-> 0, request |-> NoRequest,
   detached |-> FALSE, pairData |-> <<>>]

\* The PairState object the executeBuy call `t` on pair p refers to.
PairDataOf(p, t) == IF t.detached THEN t.pairData ELSE computedPairData[p]

\* `booting` marks the run main() awaits before it connects the feed and
\* starts the control server; pc "off" is the process not running.
IdleRecon == [pc |-> "idle", pairs |-> <<>>, trade |-> 0, balance |-> 0,
              changed |-> FALSE, booting |-> FALSE]

OffRecon == [pc |-> "off", pairs |-> <<>>, trade |-> 0, balance |-> 0,
             changed |-> FALSE, booting |-> TRUE]

\* Mutation of Serving: the feed is connected and the control server
\* started before main awaits the reconciliation of the loaded trades.
ServingFromLoad == recon.pc # "off"

\* The feed is connected, the control server listens and the timers run.
Serving == recon.pc # "off" /\ ~recon.booting

\* Trade objects are referenced by activeTrades, by a running executeSell (its
\* `trade` argument) or by checkTradeBalances (its `trade` local); unreferenced
\* objects are garbage.
Collect(h, at, run, rc) ==
  LET live == {at[p] : p \in DOMAIN at}
                \cup UNION {{run[p][i].trade : i \in 1..Len(run[p])} : p \in Pairs}
                \cup {rc.trade}
  IN Restrict(h, DOMAIN h \cap live)

FreshId(h) == CHOOSE i \in ObjIds \ DOMAIN h : \A j \in ObjIds \ DOMAIN h : i <= j

\* if (executing[pairAddress]) return;  -- executeBuy line 1279
BuyAdmitted(lock, p) == ~lock[p]

\* Mutation of SellAdmitted: executeSell without its lock check.
SellAdmittedAlways(lock, p) == TRUE

\* if (executing[pairAddress]) return;  -- executeSell line 1394
SellAdmitted(lock, p) == ~lock[p]

\* executeBuy up to its first await (the allowance read of approveToken).
BuyTask(cfg, src, policy_id, actionPercent) ==
  Task("buy", src, policy_id, actionPercent, "approve", "allowance",
       ParseEther(EthAmount(cfg, actionPercent)), 0)

\* executeSell up to its first await (balanceOf).
SellTask(src, trade, policy_id, actionPercent) ==
  Task("sell", src, policy_id, actionPercent, "balance", "read", 0, trade)

\* Calling executeBuy(p, ...): the lock and the in-flight set afterwards.
CallExecuteBuy(p, src, policy_id, actionPercent) ==
  IF BuyAdmitted(executing, p)
    THEN /\ executing' = [executing EXCEPT ![p] = TRUE]
         /\ running' = [running EXCEPT
                          ![p] = Append(@, BuyTask(config, src, policy_id, actionPercent))]
    ELSE UNCHANGED <<executing, running>>

\* Calling executeSell(p, trade, actionPercent).
CallExecuteSell(p, src, actionPercent) ==
  IF SellAdmitted(executing, p)
    THEN /\ executing' = [executing EXCEPT ![p] = TRUE]
         /\ running' = [running EXCEPT
                          ![p] = Append(@, SellTask(src, activeTrades[p],
                                                    heap[activeTrades[p]].policy_id,
                                                    actionPercent))]
    ELSE UNCHANGED <<executing, running>>

\* ------------------------------------------------- policy evaluation
AllResults == AnyResults \cup {RetNum(100)}

FirstFiringLast(policies, isEntry, res) ==
  LET firing == {i \in 1..Len(policies) :
                   /\ (IF isEntry THEN policies[i].entryFunc
                                  ELSE policies[i].exitFunc) # "none"
                   /\ ActionValue(res[i]) > 0}
  IN IF firing = {} THEN 0
     ELSE CHOOSE i \in firing : \A j \in firing : j <= i

\* The first policy, in config order, whose predicate of the given kind
\* yields an action value > 0; 0 if none does.
FirstFiring(policies, isEntry, res) ==
  LET firing == {i \in 1..Len(policies) :
                   /\ (IF isEntry THEN policies[i].entryFunc
                                  ELSE policies[i].exitFunc) # "none"
                   /\ ActionValue(res[i]) > 0}
  IN IF firing = {} THEN 0
     ELSE CHOOSE i \in firing : \A j \in firing : i <= j

ResultsPossible(policies, isEntry, ctx, res) ==
  \A i \in 1..Len(policies) :
     res[i] \in PredicateResults(IF isEntry THEN policies[i].entryFunc
                                            ELSE policies[i].exitFunc, ctx)

\* Mutation of EntryGuards: evaluateEntries without its `if (paused) return`.
EntryGuardsIgnorePause(cfg, isPaused, at, p) ==
  /\ Cardinality(DOMAIN at) < cfg.maxPositions
  /\ p \notin DOMAIN at

\* evaluateEntries: the guards that precede the policy loop.
EntryGuards(cfg, isPaused, at, p) ==
  /\ ~isPaused
  /\ Cardinality(DOMAIN at) < cfg.maxPositions
  /\ p \notin DOMAIN at

\* The customData of a pair that has none yet: {} (customData.n reads as 0).
EmptyCustomData == [n |-> 0]

FuncOf(policy, isEntry) == IF isEntry THEN policy.entryFunc ELSE policy.exitFunc

\* new Function("ctx", code) returns (line 533) for every source of the
\* model's policies but "broken", on which it throws a SyntaxError.
Compiles(code) == code # "broken"

\* `entry:${policy.id}` (line 659), `exit:${policy.id}` (line 694)
CompileKey(policy, isEntry) == <<IF isEntry THEN "entry" ELSE "exit", policy.id>>

\* The policies for which the loop of evaluateEntries / evaluateExits calls
\* compileFunc when it stops at policy k (0: it ran through).
Compiled(policies, isEntry, k) ==
  {i \in 1..Len(policies) : FuncOf(policies[i], isEntry) # "none" /\ (k = 0 \/ i <= k)}

\* compiledFuncs after those calls: a source that compiles is stored under
\* its key (line 534); one that does not is not stored (lines 536-539).
CompiledFuncsAfter(cf, policies, isEntry, k) ==
  cf \cup {CompileKey(policies[i], isEntry) :
            i \in {j \in Compiled(policies, isEntry, k) :
                     Compiles(FuncOf(policies[j], isEntry))}}

\* The compile errors those calls log: one for every call that finds nothing
\* stored under the key (line 530) and whose source does not compile.
CompileErrorsLogged(cf, policies, isEntry, k) ==
  Cardinality({i \in Compiled(policies, isEntry, k) :
                 /\ CompileKey(policies[i], isEntry) \notin cf
                 /\ ~Compiles(FuncOf(policies[i], isEntry))})

\* compileFunc over the loop that stops at policy k.
CompileFuncs(policies, isEntry, k) ==
  /\ compiledFuncs' = CompiledFuncsAfter(compiledFuncs, policies, isEntry, k)
  /\ compileErrors' = compileErrors + CompileErrorsLogged(compiledFuncs, policies, isEntry, k)

\* pairCustomData after the policy loop of evaluateEntries / evaluateExits ran
\* for pair p and stopped at policy k (0: it ran through).  buildContext gave
\* the pair an empty customData if it had none (lines 564-567), and every
\* "count" predicate that ran added one to customData.n.
CustomDataAfter(pcd, policies, isEntry, p, k) ==
  LET ran == {i \in Compiled(policies, isEntry, k) :
                Compiles(FuncOf(policies[i], isEntry))}
      writes == Cardinality({i \in ran : FuncOf(policies[i], isEntry) = "count"})
      old == IF p \in DOMAIN pcd THEN pcd[p] ELSE EmptyCustomData
  IN IF ran = {} THEN pcd
     ELSE [q \in DOMAIN pcd \cup {p} |->
             IF q = p THEN [n |-> old.n + writes] ELSE pcd[q]]

\* evaluateEntries(pairAddress, groupKey), on the pair data just integrated.
EvaluateEntries(cpd, p, groupKey, res) ==
  LET ctx == BuildContext(cpd, p, groupKey, 0)
      k == FirstFiring(config.policies, TRUE, res)
  IN /\ ResultsPossible(config.policies, TRUE, ctx, res)
     /\ IF EntryGuards(config, paused, activeTrades, p)
          THEN /\ pairCustomData' = CustomDataAfter(pairCustomData, config.policies,
                                                    TRUE, p, k)
               /\ CompileFuncs(config.policies, TRUE, k)
          ELSE UNCHANGED <<pairCustomData, compiledFuncs, compileErrors>>
     /\ IF EntryGuards(config, paused, activeTrades, p) /\ k # 0
          THEN CallExecuteBuy(p, "policy", config.policies[k].id, ActionValue(res[k]))
          ELSE UNCHANGED <<executing, running>>
     /\ UNCHANGED heap

\* Mutation of ExitsSuspended: evaluateExits without its `if (paused) return`.
ExitsNeverSuspended(isPaused) == FALSE

\* if (paused) return;  -- evaluateExits line 681
ExitsSuspended(isPaused) == isPaused

\* evaluateExits(pairAddress, groupKey)
EvaluateExits(cpd, p, groupKey, res) ==
  LET ctx == BuildContext(cpd, p, groupKey, activeTrades[p])
      k == FirstFiring(config.policies, FALSE, res)
  IN /\ ResultsPossible(config.policies, FALSE, ctx, res)
     /\ IF ExitsSuspended(paused)
          THEN UNCHANGED <<heap, executing, running, pairCustomData, compiledFuncs,
                 compileErrors>>
          ELSE /\ heap' = [heap EXCEPT ![activeTrades[p]] =
                                  UpdateActiveTradeData(@, cpd[p])]
               /\ pairCustomData' = CustomDataAfter(pairCustomData, config.policies,
                                                    FALSE, p, k)
               /\ CompileFuncs(config.policies, FALSE, k)
               /\ IF k # 0
                    THEN CallExecuteSell(p, "policy", ActionValue(res[k]))
                    ELSE UNCHANGED <<executing, running>>

\* Mutation of Dispatches: integrateNewData without its lock check.
DispatchesAlways(lock, p) == TRUE

\* if (!executing[pairAddress])  -- integrateNewData line 480
Dispatches(lock, p) == ~lock[p]

\* socket.on("marketData") -> processPairUpdate -> integrateNewData
MarketData(ev, res) ==
  /\ totalUpdateCount' = totalUpdateCount + 1
  /\ LET p == ev.pairAddress
         groupKey == GroupKeyOf(ev.minuteKey, config.groupInterval)
         cpd == IntegrateNewData(computedPairData, ev, groupKey)
     IN /\ computedPairData' = cpd
        /\ IF Dispatches(executing, p)
             THEN IF p \in DOMAIN activeTrades
                    THEN EvaluateExits(cpd, p, groupKey, res)
                    ELSE EvaluateEntries(cpd, p, groupKey, res)
             ELSE UNCHANGED <<heap, executing, running, pairCustomData, compiledFuncs,
                 compileErrors>>
  /\ UNCHANGED <<config, paused, activeTrades, inactiveTrades, recon, approved, chainNonce,
                 chainBalance, tradeLog, snapshot, requestCount, response>>


\* --------------------------------------------- steps of a running action
Without(at, p) == Restrict(at, DOMAIN at \ {p})

\* The action stays in flight: only its own locals change.
Continue(p, i, t2) ==
  /\ running' = [running EXCEPT ![p][i] = t2]
  /\ UNCHANGED <<activeTrades, heap, inactiveTrades, tradeLog, snapshot, executing,
                 response>>

\* sendJson(res, status, data)
SendJson(status, body) == [status |-> status, body |-> body]

NoResponse == SendJson(0, [message |-> "none"])

\* The body of the POST /sell-all response: one result per mapped pair, each
\* produced by `.then(() => ({ ..., status: "sold" }))` on the promise
\* executeSell returned (lines 1680-1690).
SellAllResults(pairs) ==
  [k \in 1..Len(pairs) |-> [pairAddress |-> pairs[k], status |-> "sold"]]

SellAllResponse(pairs) ==
  SendJson(200, [message |-> "Sell-all executed", results |-> SellAllResults(pairs)])

\* The response a control handler sends once the action it awaited returned:
\* POST /buy (line 1738), POST /sell (line 1710), and POST /sell-all when the
\* last of its executeSell promises settled.
BuyExecuted(p, actionPercent) ==
  SendJson(200, [message |-> "Buy executed", pairAddress |-> p,
                 action_percent |-> actionPercent])

SellExecuted(p, percent) ==
  SendJson(200, [message |-> "Sell executed", pairAddress |-> p, percent |-> percent])

AwaitedResponse(p, i) ==
  LET t == running[p][i]
      pending == \E q \in Pairs : \E j \in 1..Len(running[q]) :
                   /\ <<q, j>> # <<p, i>>
                   /\ running[q][j].request = t.request
  IN IF t.src = "manual"
       THEN IF t.kind = "buy" THEN BuyExecuted(p, t.actionPercent)
                              ELSE SellExecuted(p, t.actionPercent)
       ELSE IF t.src = "sellall" /\ ~pending
              THEN SellAllResponse(t.request.pairs)
              ELSE response

\* Mutation of Finish: the action returns without the `finally` block.
FinishKeepsLock(p, i, at2, h2, inact2, logged, saved) ==
  /\ activeTrades' = at2
  /\ inactiveTrades' = inact2
  /\ running' = [running EXCEPT ![p] = Remove(@, i)]
  /\ executing' = executing
  /\ heap' = Collect(h2, at2, running', recon)
  /\ tradeLog' = AppendTradeLog(tradeLog, logged)
  /\ snapshot' = IF saved THEN SaveTrades(at2, h2, inact2) ELSE snapshot
  /\ response' = AwaitedResponse(p, i)

\* The action returns: trade state as given, log lines appended, snapshot
\* written when it called saveTrades(), and `finally` releases the lock.
Finish(p, i, at2, h2, inact2, logged, saved) ==
  /\ activeTrades' = at2
  /\ inactiveTrades' = inact2
  /\ running' = [running EXCEPT ![p] = Remove(@, i)]
  /\ executing' = [executing EXCEPT ![p] = FALSE]
  /\ heap' = Collect(h2, at2, running', recon)
  /\ tradeLog' = AppendTradeLog(tradeLog, logged)
  /\ snapshot' = IF saved THEN SaveTrades(at2, h2, inact2) ELSE snapshot
  /\ response' = AwaitedResponse(p, i)

TypeOf(t) == IF t.kind = "buy" THEN "BUY" ELSE "SELL"

\* Mutation of AfterFailure: a failure path that drops the open positions.
AfterFailureDropsTrades(at, h, inact) ==
  [activeTrades |-> <<>>, heap |-> h, inactiveTrades |-> inact]

\* The trade state a failed buy or sell leaves: executeBuy lines 1336-1340 and
\* 1385-1387, executeSell lines 1478-1482 and 1503-1505 touch no trade.
AfterFailure(at, h, inact) == [activeTrades |-> at, heap |-> h, inactiveTrades |-> inact]

\* Mutation of FinishFailed: a failed sell that closes the position anyway.
FinishFailedClosesTrade(p, i, t, status) ==
  LET logged == <<LogEntry(TypeOf(t), status, p, t.policy_id, t.actionPercent)>>
  IN IF t.kind = "sell"
       THEN Finish(p, i, Without(activeTrades, p), heap,
                   Append(inactiveTrades, Archived(heap[t.trade], "failed")),
                   logged, TRUE)
       ELSE Finish(p, i, activeTrades, heap, inactiveTrades, logged, FALSE)

\* !result.success (status FAILED) or the catch block (status ERROR).
FinishFailed(p, i, t, status) ==
  LET after == AfterFailure(activeTrades, heap, inactiveTrades)
  IN Finish(p, i, after.activeTrades, after.heap, after.inactiveTrades,
            <<LogEntry(TypeOf(t), status, p, t.policy_id, t.actionPercent)>>, FALSE)

\* Mutation of Throw: performSwap without its try/catch, every exception
\* reaching the catch block of executeBuy / executeSell.
ThrowToCaller(p, i, t) == FinishFailed(p, i, t, "ERROR")

\* An exception inside approveToken / approvePermit2ToRouter reaches the catch
\* block of executeBuy / executeSell; inside performSwap it is turned into
\* { success: false }.
Throw(p, i, t) ==
  FinishFailed(p, i, t, IF t.stage = "swap" THEN "FAILED" ELSE "ERROR")

IsV4(p, t) ==
  IF t.kind = "buy" THEN PairDataOf(p, t).meta.isV4 ELSE heap[t.trade].isV4

IsV3(p, t) ==
  IF t.kind = "buy" THEN PairDataOf(p, t).meta.isV3 ELSE heap[t.trade].isV3

IsV2(p, t) ==
  IF t.kind = "buy" THEN PairDataOf(p, t).meta.isV2 ELSE heap[t.trade].isV2

\* performSwap's last branch: throw new Error("Unsupported pool type")
Unsupported(p, t) == ~IsV2(p, t) /\ ~IsV3(p, t) /\ ~IsV4(p, t)

\* performSwap is entered: an unsupported pool type throws and swapV4 throws
\* on a zero amountIn, both before any await and inside performSwap's try; the
\* other paths go to sendTransactionWithRetry.
BeginSwap(p, i, t) ==
  IF Unsupported(p, t) \/ (~IsV2(p, t) /\ ~IsV3(p, t) /\ IsV4(p, t) /\ t.amountIn = 0)
    THEN Throw(p, i, [t EXCEPT !.stage = "swap"])
    ELSE Continue(p, i, [t EXCEPT !.stage = "swap", !.pc = "nonce", !.attempts = 0,
                                  !.lastError = "none"])

\* An approval returned normally.
ApprovalDone(p, i, t) ==
  IF t.stage = "approve" /\ IsV4(p, t)
    THEN Continue(p, i, [t EXCEPT !.stage = "permit2", !.pc = "allowance", !.attempts = 0,
                                  !.lastError = "none"])
    ELSE BeginSwap(p, i, t)

\* executeBuy lines 1342-1384: the swap succeeded.
FinishBuyOk(p, i, t, amountOut) ==
  LET id == FreshId(heap)
      h2 == (id :> NewTrade(config, PairDataOf(p, t), t.policy_id,
                            t.actionPercent, amountOut)) @@ heap
      at2 == (p :> id) @@ activeTrades
  IN Finish(p, i, at2, h2, inactiveTrades,
            <<LogEntry("BUY", "SUCCESS", p, t.policy_id, t.actionPercent)>>, TRUE)

\* formatTokenAmount(remainingBalance, trade.token0Decimals || 18), line 1496
PartialSellDecimals(trade) ==
  IF trade.token0Decimals = 0 THEN EtherDecimals ELSE trade.token0Decimals

\* The close_reason executeSell puts on the record of a full exit (line 1491
\* sets none).
FullExitCloseReason == Undefined

\* executeSell lines 1484-1502: the swap succeeded.
FinishSellOk(p, i, t, amountOut) ==
  LET tr == heap[t.trade]
      isToken0In == tr.token0 = tr.baseToken
      ethReceived == FormatTokenAmount(amountOut, SwapOutputDecimals(tr, isToken0In))
      sold == [tr EXCEPT !.eth_sold = @ + ethReceived]
      remaining == t.actualBalance - t.amountIn
      kept == [sold EXCEPT
                 !.tokens_in_possession =
                    FormatTokenAmount(remaining, PartialSellDecimals(tr)),
                 !.tokens_in_possession_hex = remaining]
      logged == <<LogEntry("SELL", "SUCCESS", p, t.policy_id, t.actionPercent)>>
  IN IF t.actionPercent >= 100
       THEN Finish(p, i, Without(activeTrades, p), [heap EXCEPT ![t.trade] = sold],
                   Append(inactiveTrades, Archived(sold, FullExitCloseReason)),
                   logged, TRUE)
       ELSE Finish(p, i, activeTrades, [heap EXCEPT ![t.trade] = kept],
                   inactiveTrades, logged, TRUE)

\* (actualBalance * BigInt(Math.min(actionPercent, 100))) / 100n
SellAmount(actualBalance, actionPercent) ==
  (actualBalance * Min(actionPercent, 100)) \div 100

\* executeSell lines 1406-1429: balanceOf returned `read`, or threw and the
\* stored tokens_in_possession_hex is used instead.
BalanceOfReturns(p, i) ==
  /\ i \in 1..Len(running[p])
  /\ running[p][i].pc = "read"
  /\ LET t == running[p][i]
         tr == heap[t.trade]
     IN \E read \in {"chain", "zero", "throws"} :
          LET actualBalance == IF read = "chain" THEN chainBalance[p]
                               ELSE IF read = "zero" THEN 0
                               ELSE tr.tokens_in_possession_hex
              sellAmount == SellAmount(actualBalance, t.actionPercent)
          IN /\ chainBalance' = IF read = "zero"
                                  THEN [chainBalance EXCEPT ![p] = 0]
                                  ELSE chainBalance
             /\ IF actualBalance = 0
                  THEN Finish(p, i, Without(activeTrades, p), heap,
                              Append(inactiveTrades, Archived(tr, "zero_balance")),
                              <<>>, TRUE)
                  ELSE IF sellAmount = 0
                    THEN Finish(p, i, activeTrades, heap, inactiveTrades, <<>>, FALSE)
                    ELSE Continue(p, i, [t EXCEPT !.stage = "approve",
                                                  !.pc = "allowance",
                                                  !.amountIn = sellAmount,
                                                  !.actualBalance = actualBalance])
  /\ UNCHANGED <<config, paused, computedPairData, recon, approved, chainNonce,
                 totalUpdateCount, pairCustomData, compiledFuncs,
                 compileErrors, requestCount>>

\* The token an action spends and the contract it approves: the base token on
\* a buy (executeBuy lines 1282-1306), the traded token on a sell (executeSell
\* lines 1431-1451); approveToken targets Permit2 on V4 and the V3 router
\* otherwise, approvePermit2ToRouter the universal router.
TokenIn(p, t) ==
  IF t.kind = "buy"
    THEN DetectBaseToken(PairDataOf(p, t).meta.token0, PairDataOf(p, t).meta.token1)
    ELSE heap[t.trade].tokenAddress

Spender(p, t) ==
  IF t.stage = "permit2" THEN "universalRouterV4"
  ELSE IF IsV4(p, t) THEN "permit2"
  ELSE IF IsV3(p, t) THEN "uniV3Router"
  ELSE "tokenSwapper"

\* currentAllowance >= amountBig (approveToken), or currentAmount >=
\* requiredAmount && expiration > currentTime (approvePermit2ToRouter).  An
\* allowance read that fails three times counts as zero; a grant is for the
\* maximum amount; a Permit2 allowance never granted has expiration 0.
AllowanceSufficient(p, t, read) ==
  LET granted == read = "ok" /\ <<TokenIn(p, t), Spender(p, t)>> \in approved
  IN IF t.stage = "approve" THEN granted \/ t.amountIn = 0 ELSE granted

\* approveToken / approvePermit2ToRouter: the allowance read came back (after
\* up to 3 tries); a sufficient allowance returns, otherwise an approval is
\* submitted.
AllowanceReturns(p, i, reads) ==
  /\ i \in 1..Len(running[p])
  /\ running[p][i].pc = "allowance"
  /\ LET t == running[p][i]
     IN \E read \in reads :
          IF AllowanceSufficient(p, t, read)
            THEN ApprovalDone(p, i, t)
            ELSE Continue(p, i, [t EXCEPT !.pc = "nonce", !.attempts = 0,
                                                  !.lastError = "none"])
  /\ UNCHANGED <<config, paused, computedPairData, recon, approved, chainNonce,
                 chainBalance, totalUpdateCount, pairCustomData, compiledFuncs,
                 compileErrors, requestCount>>

\* let currentNonce = await wallet.getNonce(); then the first attempt calls
\* txFn(currentNonce).
NonceFor(t, reported) == reported

GetNonceReturns(p, i) ==
  /\ i \in 1..Len(running[p])
  /\ running[p][i].pc = "nonce"
  /\ LET t == running[p][i]
     IN \E ok \in BOOLEAN :
          IF ok
            THEN Continue(p, i, [t EXCEPT !.pc = "send", !.attempts = 1,
                                          !.currentNonce = NonceFor(t, chainNonce)])
            ELSE Throw(p, i, t)
  /\ UNCHANGED <<config, paused, computedPairData, recon, approved, chainNonce, chainBalance,
                 totalUpdateCount, pairCustomData, compiledFuncs,
                 compileErrors, requestCount>>

BuyOuts == {3}       \* raw token amounts a buy's receipt can report
SellOuts == {30}     \* raw base-token amounts a sell's receipt can report

\* What the pool pays out for amountIn: nothing for nothing.
SwapOuts(t) ==
  IF t.amountIn = 0 THEN {0}
  ELSE IF t.kind = "buy" THEN BuyOuts ELSE SellOuts

\* The logs of a receipt, as far as the parsers read them: an ERC-20
\* Transfer with its recipient (topics[2]) and amount (data), or a pool's Swap
\* event with its signed amount0 and amount1.
TransferLog(to, amount) ==
  [type |-> "Transfer", to |-> to, amount |-> amount, amount0 |-> 0, amount1 |-> 0]

SwapLog(amount0, amount1) ==
  [type |-> "Swap", to |-> "pool", amount |-> 0, amount0 |-> amount0, amount1 |-> amount1]

\* The logs whose topics[0] is the Transfer signature and whose topics[2] is
\* the wallet; the logs whose topics[0] is the Swap signature.
WalletTransfers(logs) ==
  {j \in 1..Len(logs) : logs[j].type = "Transfer" /\ logs[j].to = "wallet"}

SwapLogs(logs) == {j \in 1..Len(logs) : logs[j].type = "Swap"}

First(js) == CHOOSE j \in js : \A k \in js : j <= k

NotFound == [success |-> FALSE, amount |-> 0]

Found(amount) == [success |-> TRUE, amount |-> amount]

\* parseTransactionLogs: txReceipt.logs.find(...)
ParseTransactionLogs(logs) ==
  IF WalletTransfers(logs) = {} THEN NotFound
  ELSE Found(logs[First(WalletTransfers(logs))].amount)

\* parseSwapLog: |isToken0In ? amount1 : amount0|
ParseSwapLog(swapLog, isToken0In) ==
  LET tokenOutAmount == IF isToken0In THEN swapLog.amount1 ELSE swapLog.amount0
  IN Found(IF tokenOutAmount < 0 THEN 0 - tokenOutAmount ELSE tokenOutAmount)

\* parseTransactionLogsV3
ParseTransactionLogsV3(logs, isToken0In) ==
  IF SwapLogs(logs) = {} THEN NotFound
  ELSE ParseSwapLog(logs[First(SwapLogs(logs))], isToken0In)

\* parseTransactionLogsV4: the last transfer to the wallet, else the Swap log.
ParseTransactionLogsV4(logs, isToken0In) ==
  IF WalletTransfers(logs) # {}
    THEN Found(logs[CHOOSE j \in WalletTransfers(logs) :
                      \A k \in WalletTransfers(logs) : k <= j].amount)
  ELSE IF SwapLogs(logs) # {}
    THEN ParseSwapLog(logs[First(SwapLogs(logs))], isToken0In)
  ELSE NotFound

\* isToken0In as executeBuy (line 1287) and executeSell (line 1432) compute it.
IsToken0In(p, t) ==
  LET md == IF t.kind = "buy" THEN PairDataOf(p, t).meta ELSE heap[t.trade]
  IN md.token0 = DetectBaseToken(md.token0, md.token1)

\* What performSwap returns for a receipt with these logs: swapV2, swapV3
\* (with effectiveIsToken0In) or swapV4 parses them.
SwapResult(p, t, logs) ==
  IF IsV2(p, t) THEN ParseTransactionLogs(logs)
  ELSE IF IsV3(p, t)
    THEN ParseTransactionLogsV3(logs, IF t.kind = "sell" THEN ~IsToken0In(p, t)
                                                        ELSE IsToken0In(p, t))
  ELSE ParseTransactionLogsV4(logs, IsToken0In(p, t))

\* A receipt: the amount the swap paid out and the logs it carries.
Receipt(paid, logs) == [paid |-> paid, logs |-> logs]

\* The receipts of a swap of action t whose logs hold nothing the path's
\* parser looks for, or just the one log that reports the amount paid out.
PlainReceipts(p, t) ==
  UNION {{Receipt(r, logs) :
            logs \in {<<>>,
                      IF IsV3(p, t) /\ ~IsV2(p, t)
                        THEN IF (t.kind = "sell") # IsToken0In(p, t)
                               THEN <<SwapLog(t.amountIn, 0 - r)>>
                               ELSE <<SwapLog(0 - r, t.amountIn)>>
                        ELSE <<TransferLog("wallet", r)>>}} :
           r \in SwapOuts(t)}

\* The receipt arrived (txResponse.wait() resolved): the action goes on after
\* sendTransactionWithRetry.  For a swap the receipt, one of `receipts`, is
\* parsed: either the parser finds no matching log ({ success: false }) or it
\* reads the output amount from a log.
TxConfirmedWith(p, i, t, receipts) ==
  IF t.stage # "swap"
    THEN /\ ApprovalDone(p, i, t)
         /\ approved' = approved \cup {<<TokenIn(p, t), Spender(p, t)>>}
         /\ UNCHANGED chainBalance
    ELSE \E receipt \in receipts :
           LET result == SwapResult(p, t, receipt.logs)
               r == receipt.paid
           IN IF t.kind = "buy"
                THEN /\ IF ~result.success
                          THEN FinishFailed(p, i, t, "FAILED")
                          ELSE FinishBuyOk(p, i, t, result.amount)
                     /\ chainBalance' = [chainBalance EXCEPT ![p] = @ + r]
                     /\ UNCHANGED approved
                ELSE /\ chainBalance[p] >= t.amountIn
                     /\ IF ~result.success
                          THEN FinishFailed(p, i, t, "FAILED")
                          ELSE FinishSellOk(p, i, t, result.amount)
                     /\ chainBalance' = [chainBalance EXCEPT ![p] = @ - t.amountIn]
                     /\ UNCHANGED approved

\* Mutation of TxFailed: every error is retried as a network error is.
TxFailedRetriesAll(p, i, t, error) ==
  IF error = "nonce"
    THEN Continue(p, i, [t EXCEPT !.pc = "renonce", !.lastError = error])
  ELSE IF t.attempts < MaxRetries
    THEN Continue(p, i, [t EXCEPT !.attempts = @ + 1, !.lastError = error])
  ELSE Throw(p, i, t)

\* The catch block of sendTransactionWithRetry (lastError = error), then the
\* loop condition.
\*   "nonce":   NONCE_EXPIRED / "nonce too low" -> refetch the nonce
\*   "network": NETWORK_ERROR -> sleep 250 ms, next attempt
\*   "other":   break; throw lastError
TxFailed(p, i, t, error) ==
  IF error = "nonce"
    THEN Continue(p, i, [t EXCEPT !.pc = "renonce", !.lastError = error])
  ELSE IF error = "network" /\ t.attempts < MaxRetries
    THEN Continue(p, i, [t EXCEPT !.attempts = @ + 1, !.lastError = error])
  ELSE Throw(p, i, t)

\* One attempt of sendTransactionWithRetry settles.  The node accepts a
\* transaction only at the wallet's current nonce, and reports "nonce too low"
\* only for a nonce already used.
TxSettlesWith(p, i, outcomes, receipts) ==
  /\ i \in 1..Len(running[p])
  /\ running[p][i].pc = "send"
  /\ LET t == running[p][i]
     IN \E outcome \in outcomes :
          /\ outcome = "confirmed" => t.currentNonce = chainNonce
          /\ outcome = "nonce" => t.currentNonce < chainNonce
          /\ IF outcome = "confirmed"
               THEN /\ TxConfirmedWith(p, i, t, receipts)
                    /\ chainNonce' = chainNonce + 1
               ELSE /\ TxFailed(p, i, t, outcome)
                    /\ UNCHANGED <<chainNonce, chainBalance, approved>>
  /\ UNCHANGED <<config, paused, computedPairData, recon,
                 totalUpdateCount, pairCustomData, compiledFuncs,
                 compileErrors, requestCount>>

TxSettles(p, i, outcomes) ==
  /\ i \in 1..Len(running[p])
  /\ TxSettlesWith(p, i, outcomes, PlainReceipts(p, running[p][i]))

\* currentNonce = await wallet.getNonce("latest") returned or threw; then
\* `while (attempts < maxRetries)` decides between another attempt and throw
\* lastError.
RenonceReturns(p, i) ==
  /\ i \in 1..Len(running[p])
  /\ running[p][i].pc = "renonce"
  /\ LET t == running[p][i]
     IN \E ok \in BOOLEAN :
          IF ok /\ t.attempts < MaxRetries
            THEN Continue(p, i, [t EXCEPT !.pc = "send", !.attempts = @ + 1,
                                          !.currentNonce = NonceFor(t, chainNonce)])
            ELSE Throw(p, i, t)
  /\ UNCHANGED <<config, paused, computedPairData, recon, approved, chainNonce, chainBalance,
                 totalUpdateCount, pairCustomData, compiledFuncs,
                 compileErrors, requestCount>>

\* ------------------------------------------------- checkTradeBalances
\* Object.keys(activeTrades)
\* (the keys the model's objects can have, in the order they are listed)
KeyOrder == PairOrder \o <<"summary", "activeTrades", "inactiveTrades">>

Keys(at) == SelectSeq(KeyOrder, LAMBDA p : p \in DOMAIN at)

\* for (const pairAddress of pairs) { const trade = activeTrades[pairAddress];
\*   if (!trade) continue; ...
RECURSIVE SkipClosed(_, _)
SkipClosed(pairs, at) ==
  IF pairs = <<>> \/ Head(pairs) \in DOMAIN at THEN pairs
  ELSE SkipClosed(Tail(pairs), at)

\* The loop runs on to its next await (balanceOf of the next pair that still
\* has a trade) or to its end, where `if (changed) saveTrades()` runs.
ReconLoop(pairs, changed, at2, h2, inact2) ==
  LET rest == SkipClosed(pairs, at2)
  IN /\ activeTrades' = at2
     /\ inactiveTrades' = inact2
     /\ recon' = IF rest = <<>> THEN IdleRecon
                 ELSE [pc |-> "balance", pairs |-> rest, trade |-> at2[Head(rest)],
                       balance |-> 0, changed |-> changed, booting |-> recon.booting]
     /\ heap' = Collect(h2, at2, running, recon')
     /\ snapshot' = IF rest = <<>> /\ changed
                      THEN SaveTrades(at2, h2, inact2) ELSE snapshot

\* A run starts: the periodic timer or GET /balances.  With no active trade
\* it returns at once.
CheckTradeBalances ==
  /\ recon.pc = "idle"
  /\ totalUpdateCount + requestCount < MaxStimuli
  /\ requestCount' = requestCount + 1
  /\ DOMAIN activeTrades # {}
  /\ ReconLoop(Keys(activeTrades), FALSE, activeTrades, heap, inactiveTrades)
  /\ UNCHANGED <<config, paused, computedPairData, executing, running, approved,
                 chainNonce, chainBalance, tradeLog, totalUpdateCount, pairCustomData, compiledFuncs,
                 compileErrors, response>>

\* Mutation of ReconArchived: the archive without its close_reason.
ReconArchivedUnmarked(trade) == Archived(trade, Undefined)

\* The record a zero balance archives, lines 773-777.
ReconArchived(trade) == Archived(trade, "zero_balance")

\* Mutation of ReconBalanceRead: a failed read is taken for a zero balance.
ReconBalanceReadFailureAsZero(read) ==
  /\ recon.pc = "balance"
  /\ LET p == Head(recon.pairs)
     IN   LET balance == IF read \in {"zero", "throws"} THEN 0 ELSE chainBalance[p]
          IN /\ chainBalance' = IF read = "zero"
                                  THEN [chainBalance EXCEPT ![p] = 0]
                                  ELSE chainBalance
             /\ IF balance = 0
                    THEN ReconLoop(Tail(recon.pairs), TRUE, Without(activeTrades, p),
                                   heap,
                                   Append(inactiveTrades,
                                          ReconArchived(heap[recon.trade])))
                    ELSE /\ recon' = [recon EXCEPT !.pc = "decimals",
                                                   !.balance = balance]
                         /\ UNCHANGED <<activeTrades, heap, inactiveTrades, snapshot>>
  /\ UNCHANGED <<config, paused, computedPairData, executing, running, approved,
                 chainNonce, tradeLog, totalUpdateCount, pairCustomData, compiledFuncs,
                 compileErrors, requestCount, response>>

\* balanceOf returned (lines 776-796): zero archives the trade, a failure is
\* logged and skipped, anything else goes on to read decimals().  `read` is
\* what the RPC did: "chain" returns the balance, "zero" returns 0 after the
\* tokens left the wallet, "throws" fails.
ReconBalanceRead(read) ==
  /\ recon.pc = "balance"
  /\ LET p == Head(recon.pairs)
     IN   LET balance == IF read = "zero" THEN 0 ELSE chainBalance[p]
          IN /\ chainBalance' = IF read = "zero"
                                  THEN [chainBalance EXCEPT ![p] = 0]
                                  ELSE chainBalance
             /\ IF read = "throws"
                  THEN ReconLoop(Tail(recon.pairs), recon.changed, activeTrades,
                                 heap, inactiveTrades)
                  ELSE IF balance = 0
                    THEN ReconLoop(Tail(recon.pairs), TRUE, Without(activeTrades, p),
                                   heap,
                                   Append(inactiveTrades,
                                          ReconArchived(heap[recon.trade])))
                    ELSE /\ recon' = [recon EXCEPT !.pc = "decimals",
                                                   !.balance = balance]
                         /\ UNCHANGED <<activeTrades, heap, inactiveTrades, snapshot>>
  /\ UNCHANGED <<config, paused, computedPairData, executing, running, approved,
                 chainNonce, tradeLog, totalUpdateCount, pairCustomData, compiledFuncs,
                 compileErrors, requestCount, response>>

BalanceReads == {"chain", "zero", "throws"}

ReconBalanceReturns == \E read \in BalanceReads : ReconBalanceRead(read)

\* decimals() returned or threw (default 18): the trade object is refreshed.
ReconDecimalsReturns ==
  /\ recon.pc = "decimals"
  /\ \E ok \in BOOLEAN :
       LET tr == heap[recon.trade]
           tokenDecimals == IF ok THEN TokenDecimals[tr.tokenAddress]
                            ELSE EtherDecimals
           refreshed == [tr EXCEPT
                           !.tokens_in_possession =
                              FormatTokenAmount(recon.balance, tokenDecimals),
                           !.tokens_in_possession_hex = recon.balance]
       IN ReconLoop(Tail(recon.pairs), TRUE, activeTrades,
                    [heap EXCEPT ![recon.trade] = refreshed], inactiveTrades)
  /\ UNCHANGED <<config, paused, computedPairData, executing, running, approved,
                 chainNonce, chainBalance, tradeLog, totalUpdateCount, pairCustomData, compiledFuncs,
                 compileErrors, requestCount,
                 response>>

\* ------------------------------------------------ startup and shutdown
\* The position of p in the sequence pairs.
IndexIn(pairs, p) == CHOOSE k \in 1..Len(pairs) : pairs[k] = p

\* main() from loadTrades() to its first await (lines 1899-1904): the saved
\* trades are loaded and, when any is active, checkTradeBalances is awaited.
Main ==
  /\ recon.pc = "off"
  /\ LET loaded == LoadTrades(snapshot)
         pairs == Keys(loaded.activeTrades)
         at == [p \in DOMAIN loaded.activeTrades |-> IndexIn(pairs, p)]
         h == [id \in 1..Len(pairs) |-> loaded.activeTrades[pairs[id]]]
     IN ReconLoop(pairs, FALSE, at, h, loaded.inactiveTrades)
  /\ UNCHANGED <<config, paused, computedPairData, executing, running, approved,
                 chainNonce, chainBalance, tradeLog, totalUpdateCount, pairCustomData, compiledFuncs,
                 compileErrors, requestCount,
                 response>>

\* The SIGINT handler (lines 1953-1968): saveTrades(), then process.exit(0);
\* everything the process held in memory is gone.
Sigint ==
  /\ Serving
  /\ requestCount' = requestCount + 1
  /\ snapshot' = SaveTrades(activeTrades, heap, inactiveTrades)
  /\ paused' = FALSE
  /\ computedPairData' = <<>>
  /\ activeTrades' = <<>>
  /\ heap' = <<>>
  /\ inactiveTrades' = <<>>
  /\ executing' = [p \in Pairs |-> FALSE]
  /\ running' = [p \in Pairs |-> <<>>]
  /\ recon' = OffRecon
  /\ pairCustomData' = <<>>
  /\ compiledFuncs' = {}
  /\ compileErrors' = 0
  /\ UNCHANGED <<config, approved, chainNonce, chainBalance, tradeLog,
                 totalUpdateCount, response>>

\* What fs.writeFileSync(TRADES_PATH, text) can leave in the file when the
\* process stops during the call: the file is opened with truncation and then
\* written in place, so it holds the old text (not opened yet), nothing or
\* the beginning of the new text, or the whole new text.
InterruptedWrite(old, new) == {old, Truncated, new}

\* The process is stopped (killed, or the machine goes down) while it is
\* inside saveTrades; everything it held in memory is gone.
StoppedInSaveTrades ==
  /\ Serving
  /\ requestCount' = requestCount + 1
  /\ snapshot' \in InterruptedWrite(snapshot,
                                    SaveTrades(activeTrades, heap, inactiveTrades))
  /\ paused' = FALSE
  /\ computedPairData' = <<>>
  /\ activeTrades' = <<>>
  /\ heap' = <<>>
  /\ inactiveTrades' = <<>>
  /\ executing' = [p \in Pairs |-> FALSE]
  /\ running' = [p \in Pairs |-> <<>>]
  /\ recon' = OffRecon
  /\ pairCustomData' = <<>>
  /\ compiledFuncs' = {}
  /\ compileErrors' = 0
  /\ UNCHANGED <<config, approved, chainNonce, chainBalance, tradeLog,
                 totalUpdateCount, response>>

\* ------------------------------------------------------------ cleanup
\* nowMinuteKey - lastGroup > 30  -- cleanupOldGroups line 505
StaleAfterMinutes == 30

\* Mutation of Stale: a newest group exactly 30 minutes old is stale too.
StaleAtThreshold(nowMinuteKey, lastGroup) == nowMinuteKey - lastGroup >= StaleAfterMinutes

\* if (nowMinuteKey - lastGroup > 30)  -- cleanupOldGroups line 505
Stale(nowMinuteKey, lastGroup) == nowMinuteKey - lastGroup > StaleAfterMinutes

\* Mutation of KeptGroupKeys: the maxGroups smallest keys are kept.
KeptGroupKeysOldest(keys, maxGroups) ==
  {k \in keys : Cardinality({j \in keys : j < k}) < maxGroups}

\* The keys groupKeys.slice(0, groupKeys.length - maxGroups) leaves: the
\* maxGroups largest ones.
KeptGroupKeys(keys, maxGroups) ==
  {k \in keys : Cardinality({j \in keys : j > k}) < maxGroups}

\* groupKeys[groupKeys.length - 1] || 0
LastGroupKey(keys) == IF keys = {} THEN 0 ELSE CHOOSE k \in keys : \A j \in keys : j <= k

\* cleanupOldGroups (the 15-minute timer) when the clock reads nowMinuteKey:
\* trims every PairState to config.maxGroups groups and deletes the stale
\* ones that have no ActiveTrade.
CleanupOldGroups(nowMinuteKey) ==
  LET trimmed == [p \in DOMAIN computedPairData |->
                    [computedPairData[p] EXCEPT
                       !.groups = Restrict(@, KeptGroupKeys(DOMAIN @, config.maxGroups))]]
      stale == {p \in DOMAIN computedPairData :
                  /\ Stale(nowMinuteKey, LastGroupKey(DOMAIN computedPairData[p].groups))
                  /\ p \notin DOMAIN activeTrades}
  IN /\ requestCount' = requestCount + 1
     /\ computedPairData' = Restrict(trimmed, DOMAIN trimmed \ stale)
     /\ running' = [p \in Pairs |->
                      [i \in 1..Len(running[p]) |->
                         IF p \in stale /\ running[p][i].kind = "buy"
                                       /\ ~running[p][i].detached
                           THEN [running[p][i] EXCEPT !.detached = TRUE,
                                                      !.pairData = trimmed[p]]
                           ELSE running[p][i]]]
     /\ UNCHANGED <<config, paused, activeTrades, heap, inactiveTrades, executing, recon,
                    approved, chainNonce, chainBalance, tradeLog, snapshot,
                    totalUpdateCount, pairCustomData, compiledFuncs,
                 compileErrors, response>>

\* ------------------------------------------------------ control server
\* Math.min(Math.round((ethAmount / config.maxEthPerTrade) * 100), 100)
ManualActionPercent(cfg, ethAmount) ==
  Min((2 * ethAmount * 100 + cfg.maxEthPerTrade) \div (2 * cfg.maxEthPerTrade), 100)

\* A request body as it arrives: its text is empty, unparsable, or the JSON
\* text of `object`.
EmptyText == [text |-> "", object |-> <<>>]
BadText == [text |-> "{", object |-> <<>>]
JsonText(object) == [text |-> "json", object |-> object]

\* parseBody (lines 1574-1586): resolves {} for an empty text, the parsed
\* object for JSON, and rejects with Error("Invalid JSON body") otherwise.
ParseBody(raw) ==
  IF raw.text = "" THEN [rejected |-> FALSE, body |-> <<>>]
  ELSE IF raw.text = "json" THEN [rejected |-> FALSE, body |-> raw.object]
  ELSE [rejected |-> TRUE, body |-> <<>>]

\* (body.pairAddress || "")
StringField(body, key) == IF key \in DOMAIN body THEN body[key] ELSE ""

\* parseFloat(body.key || default)
NumberField(body, key, default) ==
  IF key \in DOMAIN body /\ body[key] # 0 THEN body[key] ELSE default

\* The catch of the request handler: sendJson(res, 500, ...), line 1816.
HandlerErrorStatus == 500

HandlerError(message) == SendJson(HandlerErrorStatus, [error |-> message])

\* The handler answers and returns without touching any state.
Answer(r) ==
  /\ response' = r
  /\ UNCHANGED <<config, paused, computedPairData, activeTrades, heap, inactiveTrades,
                 executing, running, recon, approved, chainNonce, chainBalance,
                 tradeLog, snapshot, totalUpdateCount, pairCustomData, compiledFuncs,
                 compileErrors>>

\* Mutation of BuyRejection: POST /buy without its active-trade and lock checks.
BuyRejectionUnlocked(addr, ethAmount) ==
  IF addr = "" THEN SendJson(400, [error |-> "Missing pairAddress"])
  ELSE IF ethAmount <= 0 THEN SendJson(400, [error |-> "ethAmount must be > 0"])
  ELSE IF addr \notin DOMAIN computedPairData
    THEN SendJson(404, [error |-> "Pair not found in market data", pairAddress |-> addr])
  ELSE NoResponse

\* The checks of POST /buy in their order (lines 1723-1730); NoResponse when
\* all of them pass.
BuyRejection(addr, ethAmount) ==
  IF addr = "" THEN SendJson(400, [error |-> "Missing pairAddress"])
  ELSE IF ethAmount <= 0 THEN SendJson(400, [error |-> "ethAmount must be > 0"])
  ELSE IF addr \in DOMAIN activeTrades
    THEN SendJson(409, [error |-> "Already have an active trade", pairAddress |-> addr])
  ELSE IF executing[addr]
    THEN SendJson(409, [error |-> "Trade is already executing", pairAddress |-> addr])
  ELSE IF addr \notin DOMAIN computedPairData
    THEN SendJson(404, [error |-> "Pair not found in market data", pairAddress |-> addr])
  ELSE NoResponse

\* POST /buy with the body text `raw`.
PostBuy(raw) ==
  LET parsed == ParseBody(raw)
      addr == StringField(parsed.body, "pairAddress")
      ethAmount == NumberField(parsed.body, "ethAmount", 0)
  IN /\ requestCount' = requestCount + 1
     /\ IF parsed.rejected THEN Answer(HandlerError("Invalid JSON body"))
        ELSE IF BuyRejection(addr, ethAmount) # NoResponse
          THEN Answer(BuyRejection(addr, ethAmount))
        ELSE /\ CallExecuteBuy(addr, "manual", "manual",
                               ManualActionPercent(config, ethAmount))
             /\ response' = IF BuyAdmitted(executing, addr) THEN response
                            ELSE BuyExecuted(addr, ManualActionPercent(config, ethAmount))
             /\ UNCHANGED <<config, paused, computedPairData, activeTrades, heap,
                            inactiveTrades, recon, approved, chainNonce, chainBalance,
                            tradeLog, snapshot, totalUpdateCount, pairCustomData, compiledFuncs,
                 compileErrors>>

\* Mutation of SellRejection: POST /sell without its lock check.
SellRejectionUnlocked(addr, percent) ==
  IF addr = "" THEN SendJson(400, [error |-> "Missing pairAddress"])
  ELSE IF percent <= 0 \/ percent > 100
    THEN SendJson(400, [error |-> "percent must be 1-100"])
  ELSE IF addr \notin DOMAIN activeTrades
    THEN SendJson(404, [error |-> "No active trade", pairAddress |-> addr])
  ELSE NoResponse

\* The checks of POST /sell in their order (lines 1700-1706).
SellRejection(addr, percent) ==
  IF addr = "" THEN SendJson(400, [error |-> "Missing pairAddress"])
  ELSE IF percent <= 0 \/ percent > 100
    THEN SendJson(400, [error |-> "percent must be 1-100"])
  ELSE IF addr \notin DOMAIN activeTrades
    THEN SendJson(404, [error |-> "No active trade", pairAddress |-> addr])
  ELSE IF executing[addr]
    THEN SendJson(409, [error |-> "Trade is already executing", pairAddress |-> addr])
  ELSE NoResponse

\* POST /sell with the body text `raw`.
PostSell(raw) ==
  LET parsed == ParseBody(raw)
      addr == StringField(parsed.body, "pairAddress")
      percent == NumberField(parsed.body, "percent", 100)
  IN /\ requestCount' = requestCount + 1
     /\ IF parsed.rejected THEN Answer(HandlerError("Invalid JSON body"))
        ELSE IF SellRejection(addr, percent) # NoResponse
          THEN Answer(SellRejection(addr, percent))
        ELSE /\ CallExecuteSell(addr, "manual", percent)
             /\ response' = IF SellAdmitted(executing, addr) THEN response
                            ELSE SellExecuted(addr, percent)
             /\ UNCHANGED <<config, paused, computedPairData, activeTrades, heap,
                            inactiveTrades, recon, approved, chainNonce, chainBalance,
                            tradeLog, snapshot, totalUpdateCount, pairCustomData, compiledFuncs,
                 compileErrors>>

\* POST /sell-all: executeSell(addr, trade, 100) for every open position; the
\* response is sent when every returned promise settled, which is at once for
\* the pairs whose lock made executeSell return on its first line.
PostSellAll ==
  LET pairs == Keys(activeTrades)
      request == [id |-> requestCount + 1, pairs |-> pairs]
      started == {p \in DOMAIN activeTrades : SellAdmitted(executing, p)}
  IN /\ requestCount' = requestCount + 1
     /\ IF pairs = <<>>
          THEN Answer(SendJson(200, [message |-> "No active trades to sell.",
                                     results |-> <<>>]))
          ELSE /\ executing' = [p \in Pairs |-> executing[p] \/ p \in started]
               /\ running' = [p \in Pairs |->
                                IF p \in started
                                  THEN Append(running[p],
                                         [SellTask("sellall", activeTrades[p],
                                                   heap[activeTrades[p]].policy_id, 100)
                                            EXCEPT !.request = request])
                                  ELSE running[p]]
               /\ response' = IF started = {} THEN SellAllResponse(pairs) ELSE response
               /\ UNCHANGED <<config, paused, computedPairData, activeTrades, heap,
                              inactiveTrades, recon, approved, chainNonce, chainBalance,
                              tradeLog, snapshot, totalUpdateCount, pairCustomData, compiledFuncs,
                 compileErrors>>

\* POST /pause, POST /resume
PostPause ==
  /\ requestCount' = requestCount + 1
  /\ paused' = TRUE
  /\ response' = SendJson(200, [paused |-> TRUE])
  /\ UNCHANGED <<config, computedPairData, activeTrades, heap, inactiveTrades,
                 executing, running, recon, approved, chainNonce, chainBalance, tradeLog,
                 snapshot, totalUpdateCount, pairCustomData, compiledFuncs,
                 compileErrors>>

PostResume ==
  /\ requestCount' = requestCount + 1
  /\ paused' = FALSE
  /\ response' = SendJson(200, [paused |-> FALSE])
  /\ UNCHANGED <<config, computedPairData, activeTrades, heap, inactiveTrades,
                 executing, running, recon, approved, chainNonce, chainBalance, tradeLog,
                 snapshot, totalUpdateCount, pairCustomData, compiledFuncs,
                 compileErrors>>

\* GET /status, reduced to the fields `paused` and `pairs_tracked`.
GetStatus ==
  /\ requestCount' = requestCount + 1
  /\ Answer(SendJson(200, [paused |-> paused,
                           pairs_tracked |-> Cardinality(DOMAIN computedPairData)]))

\* The config keys POST /config copies from the body (line 1792), among those
\* the model's config has.
Updatable == {"maxEthPerTrade", "maxPositions", "groupInterval", "maxGroups"}

\* POST /config with the body text `raw`.
PostConfig(raw) ==
  LET parsed == ParseBody(raw)
      updated == Restrict(parsed.body, DOMAIN parsed.body \cap Updatable)
  IN /\ requestCount' = requestCount + 1
     /\ IF parsed.rejected
          THEN Answer(HandlerError("Invalid JSON body"))
          ELSE /\ config' = [k \in DOMAIN config |->
                               IF k \in DOMAIN updated THEN updated[k] ELSE config[k]]
               /\ response' = SendJson(200, [message |-> "Config updated",
                                             updated |-> updated])
               /\ UNCHANGED <<paused, computedPairData, activeTrades, heap,
                              inactiveTrades, executing, running, recon, approved,
                              chainNonce, chainBalance, tradeLog, snapshot,
                              totalUpdateCount, pairCustomData, compiledFuncs,
                 compileErrors>>

\* ------------------------------------------------------ specification
Event(p, price, minuteKey, bv, sv, liq) ==
  [pairAddress |-> p, chain |-> PairChain[p], last_price |-> price,
   minuteKey |-> minuteKey, buy_volume |-> bv, sell_volume |-> sv, liquidity |-> liq]

InitWith(cfg) ==
  /\ config = cfg
  /\ paused = FALSE
  /\ computedPairData = <<>>
  /\ activeTrades = <<>>
  /\ heap = <<>>
  /\ inactiveTrades = <<>>
  /\ executing = [p \in Pairs |-> FALSE]
  /\ running = [p \in Pairs |-> <<>>]
  /\ recon = IdleRecon
  /\ chainNonce = 0
  /\ chainBalance = [p \in Pairs |-> 0]
  /\ approved = {}
  /\ tradeLog = EmptyTradeLog
  /\ snapshot = NoFile
  /\ totalUpdateCount = 0
  /\ pairCustomData = <<>>
  /\ compiledFuncs = {}
  /\ compileErrors = 0
  /\ requestCount = 0
  /\ response = NoResponse

Init == InitWith(DefaultConfig(1, <<AnyPolicy>>))

FeedPrices == {100}
BuyEthAmounts == {10, 5000}
SellPercents == {1, 100}

Feed ==
  /\ Serving
  /\ totalUpdateCount + requestCount < MaxStimuli
  /\ \E p \in Pairs, price \in FeedPrices, res \in [1..Len(config.policies) -> AllResults] :
       MarketData(Event(p, price, 100, 1, 0, 10), res)

AllowanceReads == {"ok"}
TxOutcomes == {"confirmed", "nonce", "other"}

ActionStep ==
  \E p \in Pairs, i \in 1..2 :
     \/ BalanceOfReturns(p, i)
     \/ AllowanceReturns(p, i, AllowanceReads)
     \/ GetNonceReturns(p, i)
     \/ TxSettles(p, i, TxOutcomes)
     \/ RenonceReturns(p, i)

BuyBodies ==
  {BadText, EmptyText, JsonText([pairAddress |-> "0xa"])}
    \cup {JsonText([pairAddress |-> p, ethAmount |-> e]) : p \in Pairs, e \in BuyEthAmounts}

SellBodies ==
  {BadText, EmptyText, JsonText([pairAddress |-> "0xa"])}
    \cup {JsonText([pairAddress |-> p, percent |-> n]) : p \in Pairs, n \in SellPercents}

ConfigBodies == {BadText, JsonText([maxGroups |-> DefaultMaxGroups])}

Control ==
  /\ Serving
  /\ totalUpdateCount + requestCount < MaxStimuli
  /\ \/ \E raw \in BuyBodies : PostBuy(raw)
     \/ \E raw \in SellBodies : PostSell(raw)
     \/ \E raw \in ConfigBodies : PostConfig(raw)
     \/ PostSellAll
     \/ PostPause
     \/ PostResume
     \/ GetStatus

Reconcile == CheckTradeBalances \/ ReconBalanceReturns \/ ReconDecimalsReturns

\* The clock at a cleanup run: the minute of the feed events, half an hour
\* later, or one minute more.
NowMinuteKeys == {100, 130, 131}

Cleanup ==
  /\ Serving
  /\ totalUpdateCount + requestCount < MaxStimuli
  /\ \E nowMinuteKey \in NowMinuteKeys : CleanupOldGroups(nowMinuteKey)

Next == Feed \/ ActionStep \/ Control \/ Reconcile \/ Cleanup

Spec == Init /\ [][Next]_vars

\* ------------------------------------------- restarts of the process
\* The process is started on a snapshot file an earlier version left in the
\* old flat format (with or without a "summary" key), or on none; it can be
\* stopped by SIGINT and started again.
LegacyTrade(p) ==
  NewTrade(DefaultConfig(1, <<AnyPolicy>>), NewPairData(Event(p, 100, 100, 1, 0, 10), 100),
           "p1", 100, 3)

LegacyFiles ==
  {File([k \in held \cup extra |->
           IF k = "summary"
             THEN [open_trades |-> Cardinality(held), closed_trades |-> 0]
             ELSE LegacyTrade(k)]) :
     held \in {{"0xa"}, {"0xa", "0xb"}}, extra \in {{}, {"summary"}}}

InitialSnapshots == {NoFile} \cup LegacyFiles

InitFrom(files) ==
  /\ config = DefaultConfig(1, <<AnyPolicy>>)
  /\ paused = FALSE
  /\ computedPairData = <<>>
  /\ activeTrades = <<>>
  /\ heap = <<>>
  /\ inactiveTrades = <<>>
  /\ executing = [p \in Pairs |-> FALSE]
  /\ running = [p \in Pairs |-> <<>>]
  /\ recon = OffRecon
  /\ chainNonce = 0
  /\ snapshot \in files
  /\ chainBalance = [p \in Pairs |->
                       IF snapshot.exists /\ p \in DOMAIN snapshot.json
                         THEN snapshot.json[p].tokens_in_possession_hex ELSE 0]
  /\ approved = {}
  /\ tradeLog = EmptyTradeLog
  /\ totalUpdateCount = 0
  /\ pairCustomData = <<>>
  /\ compiledFuncs = {}
  /\ compileErrors = 0
  /\ requestCount = 0
  /\ response = NoResponse

InitRestart == InitFrom(InitialSnapshots)

Shutdown ==
  /\ totalUpdateCount + requestCount < MaxStimuli
  /\ Sigint

\* Feed events for one pair, and actions whose transactions confirm.
RestartPair == "0xa"

RestartFeed ==
  /\ Serving
  /\ totalUpdateCount + requestCount < MaxStimuli
  /\ \E res \in [1..Len(config.policies) -> AllResults] :
       MarketData(Event(RestartPair, 100, 100, 1, 0, 10), res)

ConfirmingStep(p) ==
  \E i \in 1..1 :
     \/ BalanceOfReturns(p, i)
     \/ AllowanceReturns(p, i, {"ok"})
     \/ GetNonceReturns(p, i)
     \/ TxSettles(p, i, {"confirmed"})

RestartStep == ConfirmingStep(RestartPair)

NextRestart ==
  Main \/ Shutdown \/ RestartFeed \/ RestartStep \/ ReconBalanceReturns
    \/ ReconDecimalsReturns

SpecRestart == InitRestart /\ [][NextRestart]_vars

\* ------------------------------ specification: stopped while saving
\* SpecRestart with a process that can also be stopped inside saveTrades.
Stopped ==
  /\ totalUpdateCount + requestCount < MaxStimuli
  /\ StoppedInSaveTrades

NextStopped ==
  Main \/ Shutdown \/ Stopped \/ RestartFeed \/ RestartStep \/ ReconBalanceReturns
    \/ ReconDecimalsReturns

SpecStopped == InitRestart /\ [][NextStopped]_vars

\* ------------------------------------- specification: retried sends
\* Both pairs trade through the one wallet, and an attempt of
\* sendTransactionWithRetry can confirm or fail in each of the three ways its
\* catch block tells apart.
RetryOutcomes == {"confirmed", "nonce", "network", "other"}

InitRetry == InitWith(DefaultConfig(DefaultMaxPositions, <<AnyPolicy>>))

RetryFeed ==
  /\ totalUpdateCount < MaxStimuli
  /\ \E p \in Pairs, res \in [1..Len(config.policies) -> EnterResults] :
       MarketData(Event(p, 100, 100, 1, 0, 10), res)

RetryStep ==
  \E p \in Pairs, i \in 1..1 :
     \/ BalanceOfReturns(p, i)
     \/ AllowanceReturns(p, i, {"ok"})
     \/ GetNonceReturns(p, i)
     \/ TxSettles(p, i, RetryOutcomes)
     \/ RenonceReturns(p, i)

NextRetry == RetryFeed \/ RetryStep

SpecRetry == InitRetry /\ [][NextRetry]_vars

\* ------------------------------------------ specification: swap paths
\* One pair, reported by the feed as a V2, V3 or V4 pool; the process starts
\* without a snapshot or on a flat snapshot whose trade carries no protocol
\* flag.  Every call an action awaits can fail.
SwapPair == "0xa"
SwapChains == {"base_v2", "base_v3", "base_v4"}

UnflaggedTrade ==
  [LegacyTrade(SwapPair) EXCEPT !.isV2 = FALSE, !.isV3 = FALSE, !.isV4 = FALSE]

SwapSnapshots == {NoFile, File(SwapPair :> UnflaggedTrade)}

InitSwap == InitFrom(SwapSnapshots)

SwapFeed ==
  /\ Serving
  /\ totalUpdateCount < MaxStimuli
  /\ \E chain \in SwapChains, res \in [1..Len(config.policies) -> EnterResults] :
       MarketData([Event(SwapPair, 100, 100, 1, 0, 10) EXCEPT !.chain = chain], res)

SwapStep ==
  \E i \in 1..1 :
     \/ BalanceOfReturns(SwapPair, i)
     \/ AllowanceReturns(SwapPair, i, {"ok", "fails"})
     \/ GetNonceReturns(SwapPair, i)
     \/ TxSettles(SwapPair, i, {"confirmed", "network", "other"})

NextSwap == Main \/ SwapFeed \/ SwapStep \/ ReconBalanceReturns \/ ReconDecimalsReturns

SpecSwap == InitSwap /\ [][NextSwap]_vars

\* --------------------------------- predicate return values at work
\* One policy whose entry and exit predicates can return any of the values of
\* ValueResults, fed with events for one pair.
ValuesPolicy == [id |-> "p1", entryFunc |-> "values", exitFunc |-> "values"]

ValuesEvent == Event("0xa", 100, 100, 1, 0, 10)

InitValues == InitWith(DefaultConfig(DefaultMaxPositions, <<ValuesPolicy>>))

ValuesFeed ==
  /\ totalUpdateCount < MaxStimuli
  /\ \E res \in [1..Len(config.policies) -> ValueResults] : MarketData(ValuesEvent, res)

ValuesStep == ConfirmingStep(ValuesEvent.pairAddress)

NextValues == ValuesFeed \/ ValuesStep

SpecValues == InitValues /\ [][NextValues]_vars

\* ------------------------------- scenario "entry on first breakout"
\* Three updates for one pair: last_price 1.0, 1.3, 1.62 at minute_key 100,
\* 100, 101, under the default config with one policy whose entry predicate
\* returns 100 when group.price_change_pct exceeds a threshold (25 or 50) and
\* which has no exit predicate.
ScenarioPair == "0xa"

ScenarioEvents ==
  <<[last_price |-> 100, minuteKey |-> 100],
    [last_price |-> 130, minuteKey |-> 100],
    [last_price |-> 162, minuteKey |-> 101]>>

BreakoutPolicy(func) == [id |-> "p1", entryFunc |-> func, exitFunc |-> "none"]

InitScenario ==
  \E func \in {"breakout25", "breakout50"} :
     InitWith(DefaultConfig(DefaultMaxPositions, <<BreakoutPolicy(func)>>))

ScenarioFeed ==
  /\ totalUpdateCount < Len(ScenarioEvents)
  /\ LET e == ScenarioEvents[totalUpdateCount + 1]
     IN \E bv \in {0, 1}, sv \in {0, 1}, res \in [1..Len(config.policies) -> AllResults] :
          MarketData(Event(ScenarioPair, e.last_price, e.minuteKey, bv, sv, 10), res)

ScenarioStep ==
  \E i \in 1..1 :
     \/ AllowanceReturns(ScenarioPair, i, {"ok", "fails"})
     \/ GetNonceReturns(ScenarioPair, i)
     \/ TxSettles(ScenarioPair, i, {"confirmed", "network", "other"})

NextScenario == ScenarioFeed \/ ScenarioStep

SpecScenario == InitScenario /\ [][NextScenario]_vars

\* ---------------------------------------------------------- properties
\* What one step did, read off the state before and after it.
BuyStarts(p) ==
  /\ Len(running'[p]) = Len(running[p]) + 1
  /\ running'[p][Len(running'[p])].kind = "buy"

Started(p) == running'[p][Len(running'[p])]

\* An action of the given kind on p returned in this step and wrote a
\* trade-log line with one of the given statuses.
Ends(p, kind, statuses) ==
  /\ Len(running[p]) = 1
  /\ running[p][1].kind = kind
  /\ running'[p] = <<>>
  /\ tradeLog'.len = tradeLog.len + 1
  /\ tradeLog'.last.pairAddress = p
  /\ tradeLog'.last.status \in statuses

Failure == {"FAILED", "ERROR"}

\* C1: for every pair at most one executeBuy / executeSell call is in flight,
\* whatever triggers arrive while the pair's lock is held.
C1_OneActionPerPair == \A p \in Pairs : Len(running[p]) <= 1

\* A sell holds the lock of a pair with an open position after at least two
\* triggers have been handled, with the feed and the control endpoints still
\* able to deliver another one.
C1_Witness ==
  \E p \in Pairs :
     /\ executing[p]
     /\ Len(running[p]) = 1
     /\ running[p][1].kind = "sell"
     /\ p \in DOMAIN activeTrades
     /\ totalUpdateCount + requestCount = 2

\* C2: when every entry came from policy evaluation, the number of
\* ActiveTrades never exceeds config.maxPositions.
C2_PositionsWithinLimit ==
  (\A p \in DOMAIN activeTrades : heap[activeTrades[p]].policy_id # "manual")
     => Cardinality(DOMAIN activeTrades) <= config.maxPositions

\* C3: no two transactions in flight at the same time carry the same nonce.
C3_DistinctNonces ==
  \A p, q \in Pairs :
     \A i \in 1..Len(running[p]), j \in 1..Len(running[q]) :
        (/\ <<p, i>> # <<q, j>>
         /\ running[p][i].pc = "send"
         /\ running[q][j].pc = "send")
           => running[p][i].currentNonce # running[q][j].currentNonce

FourPreconditions(p) ==
  /\ ~paused
  /\ Cardinality(DOMAIN activeTrades) < config.maxPositions
  /\ p \notin DOMAIN activeTrades
  /\ ~executing[p]

\* C4 (as stated): whenever a buy starts, by policy evaluation or by POST /buy,
\* the agent is not paused, |ActiveTrades| < maxPositions, the pair has no
\* ActiveTrade and its lock is free.
C4_AllEntriesGuarded ==
  [][\A p \in Pairs : BuyStarts(p) => FourPreconditions(p)]_vars

\* C4 (amended): a buy started by policy evaluation has all four
\* preconditions; a buy started by POST /buy is only guaranteed that the pair
\* has no ActiveTrade and that its lock is free.
C4_EntryPreconditions ==
  [][\A p \in Pairs :
       BuyStarts(p) =>
         IF Started(p).src = "policy"
           THEN FourPreconditions(p)
           ELSE p \notin DOMAIN activeTrades /\ ~executing[p]]_vars

\* A POST /buy entry awaiting its first RPC answer while the agent is paused
\* or the position limit is already reached.
C4_Witness ==
  \E p \in Pairs :
     /\ Len(running[p]) = 1
     /\ running[p][1].kind = "buy"
     /\ running[p][1].src = "manual"
     /\ running[p][1].stage = "approve"
     /\ running[p][1].pc = "allowance"
     /\ (paused \/ Cardinality(DOMAIN activeTrades) >= config.maxPositions)

\* C5: every ActiveTrade has eth_spent > 0, tokens_in_possession >= 0 and
\* eth_sold >= 0.
C5_TradeAmounts ==
  \A p \in DOMAIN activeTrades :
     LET tr == heap[activeTrades[p]]
     IN tr.eth_spent > 0 /\ tr.tokens_in_possession >= 0 /\ tr.eth_sold >= 0

\* C6: the step in which a buy ends FAILED or ERROR leaves activeTrades and
\* inactiveTrades as they were, leaves the pair without an ActiveTrade, and
\* starts no further attempt.
C6_FailedBuyLeavesNoTrade ==
  [][\A p \in Pairs :
       Ends(p, "buy", Failure) =>
         /\ activeTrades' = activeTrades
         /\ inactiveTrades' = inactiveTrades
         /\ p \notin DOMAIN activeTrades'
         /\ \A q \in DOMAIN activeTrades : heap'[activeTrades'[q]] = heap[activeTrades[q]]
         /\ running'[p] = <<>>
         /\ ~executing'[p]]_vars

\* A buy has just failed on a pair while the other pair holds a position.
C6_Witness ==
  /\ tradeLog.last.type = "BUY"
  /\ tradeLog.last.status \in Failure
  /\ tradeLog.last.pairAddress \notin DOMAIN activeTrades
  /\ DOMAIN activeTrades # {}
  /\ \A p \in Pairs : running[p] = <<>>

\* C7: the step in which a sell ends FAILED or ERROR (a non-zero balance was
\* read) leaves the ActiveTrade in activeTrades with eth_sold,
\* tokens_in_possession and tokens_in_possession_hex unchanged, and adds
\* nothing to inactiveTrades.
C7_FailedSellKeepsTrade ==
  [][\A p \in Pairs :
       Ends(p, "sell", Failure) =>
         /\ activeTrades' = activeTrades
         /\ inactiveTrades' = inactiveTrades
         /\ \A q \in DOMAIN activeTrades :
              LET before == heap[activeTrades[q]]
                  after == heap'[activeTrades'[q]]
              IN /\ after.eth_sold = before.eth_sold
                 /\ after.tokens_in_possession = before.tokens_in_possession
                 /\ after.tokens_in_possession_hex = before.tokens_in_possession_hex]_vars

\* A sell has just failed and its trade is still open, nothing archived.
C7_Witness ==
  /\ tradeLog.last.type = "SELL"
  /\ tradeLog.last.status \in Failure
  /\ tradeLog.last.pairAddress \in DOMAIN activeTrades
  /\ inactiveTrades = <<>>
  /\ running[tradeLog.last.pairAddress] = <<>>

\* C9: the step in which a sell with action percent 1..99 succeeds on a balance
\* b > 0 has sold floor(b * percent / 100), keeps the trade in activeTrades
\* with tokens_in_possession_hex = b - sold and tokens_in_possession that
\* amount scaled by the sold token's decimals, adds the parsed output to
\* eth_sold, and writes the snapshot and one trade-log line.
C9_PartialSell ==
  [][\A p \in Pairs :
       (Ends(p, "sell", {"SUCCESS"}) /\ running[p][1].actionPercent \in 1..99) =>
         LET t == running[p][1]
             b == t.actualBalance
             sold == (b * t.actionPercent) \div 100
             before == heap[t.trade]
             after == heap'[t.trade]
         IN /\ b > 0
            /\ t.amountIn = sold
            /\ chainBalance'[p] = chainBalance[p] - sold
            /\ t.trade \in DOMAIN heap'
            /\ (p \in DOMAIN activeTrades => /\ p \in DOMAIN activeTrades'
                                             /\ activeTrades'[p] = activeTrades[p])
            /\ after.tokens_in_possession_hex = b - sold
            /\ after.tokens_in_possession =
                 FormatTokenAmount(b - sold, TokenDecimals[before.tokenAddress])
            /\ after.eth_sold > before.eth_sold
            /\ snapshot' = SaveTrades(activeTrades', heap', inactiveTrades')
            /\ tradeLog'.last.type = "SELL"]_vars

Last(seq) == seq[Len(seq)]

Threshold(func) == config.policies[1].entryFunc = func

SecondUpdate == totalUpdateCount = 1 /\ totalUpdateCount' = 2

TradeCreated(p) == p \notin DOMAIN activeTrades /\ p \in DOMAIN activeTrades'

ReconReadsZero ==
  \/ ReconBalanceRead("zero")
  \/ ReconBalanceRead("chain") /\ chainBalance[Head(recon.pairs)] = 0

\* A reconciliation run returns in this step.
ReconEnds == recon.pc # "idle" /\ recon'.pc = "idle"

\* C11: the step in which reconciliation reads a zero balance for a trade
\* appends that trade to inactiveTrades with close_reason zero_balance, removes
\* the pair from activeTrades, marks the run as changed so that the snapshot
\* is written when the run returns, and submits no transaction.
C11_ZeroBalanceArchived ==
  [][/\ ReconReadsZero =>
          LET p == Head(recon.pairs)
              rec == Last(inactiveTrades')
          IN /\ Len(inactiveTrades') = Len(inactiveTrades) + 1
             /\ rec.trade = heap[recon.trade]
             /\ rec.close_reason = "zero_balance"
             /\ p \notin DOMAIN activeTrades'
             /\ (recon'.pc # "idle" => recon'.changed)
             /\ running' = running
             /\ chainNonce' = chainNonce
             /\ approved' = approved
             /\ tradeLog' = tradeLog
     /\ (ReconEnds /\ (recon.changed \/ ReconReadsZero)) =>
          snapshot' = SaveTrades(activeTrades', heap', inactiveTrades')]_vars

\* Two positions are open and a run is under way: it has archived "0xa" on a
\* zero balance and now awaits the balance of "0xb".
C11_Witness ==
  /\ recon.pc = "balance"
  /\ recon.pairs = <<"0xb">>
  /\ recon.changed
  /\ "0xa" \notin DOMAIN activeTrades
  /\ inactiveTrades # <<>>
  /\ Last(inactiveTrades).close_reason = "zero_balance"
  /\ Last(inactiveTrades).trade.pairAddress = "0xa"

\* A marketData event is processed in this step.
FeedEvent == totalUpdateCount' = totalUpdateCount + 1

\* The control server answers a GET /status in this step.
StatusAnswered ==
  /\ requestCount' = requestCount + 1
  /\ response'.status = 200
  /\ DOMAIN response'.body = {"paused", "pairs_tracked"}
  /\ UNCHANGED <<paused, computedPairData, executing, running>>

\* C12: while auto-trading is paused, a feed event is still aggregated into the
\* pair and group state but starts no entry and no exit (no action is put in
\* flight, no lock is taken, no trade object is touched); the pause lasts until
\* a POST /resume is handled, and a GET /status answered meanwhile reports
\* paused = true.
C12_PausedFeedStartsNothing ==
  [][/\ (paused /\ FeedEvent) =>
          /\ computedPairData' # computedPairData
          /\ running' = running
          /\ executing' = executing
          /\ heap' = heap
          /\ chainNonce' = chainNonce
     /\ (paused /\ ~paused') => response' = SendJson(200, [paused |-> FALSE])
     /\ (response' = SendJson(200, [paused |-> TRUE]) /\ requestCount' # requestCount)
           => paused'
     /\ (paused /\ StatusAnswered) => response'.body.paused = TRUE]_vars

\* A GET /status answered "paused" when no pair was tracked yet, and a feed
\* event aggregated since, with the pause still on.
C12_Witness ==
  /\ paused
  /\ response.status = 200
  /\ DOMAIN response.body = {"paused", "pairs_tracked"}
  /\ response.body.paused = TRUE
  /\ response.body.pairs_tracked = 0
  /\ DOMAIN computedPairData # {}

\* The well-formed POST /buy bodies: a pair address and a positive amount.
BuyRequests ==
  {raw \in BuyBodies : /\ ~ParseBody(raw).rejected
                       /\ StringField(ParseBody(raw).body, "pairAddress") # ""
                       /\ NumberField(ParseBody(raw).body, "ethAmount", 0) > 0}

AddrOf(raw) == StringField(ParseBody(raw).body, "pairAddress")

\* The step starts nothing: no action put in flight, no lock taken, no trade
\* or chain state touched.
NothingStarted ==
  UNCHANGED <<running, executing, activeTrades, heap, inactiveTrades, chainNonce,
              approved, tradeLog, snapshot>>

\* C13 as stated: a POST /buy naming a pair with an ActiveTrade is answered 409,
\* one naming a pair with neither PairState nor ActiveTrade is answered 404,
\* and neither starts a buy.
C13_ActiveIs409UnknownIs404 ==
  [][\A raw \in BuyRequests :
       PostBuy(raw) =>
         /\ (AddrOf(raw) \in DOMAIN activeTrades =>
               response'.status = 409 /\ NothingStarted)
         /\ (AddrOf(raw) \notin DOMAIN computedPairData
               /\ AddrOf(raw) \notin DOMAIN activeTrades =>
               response'.status = 404 /\ NothingStarted)]_vars

\* C13, amended: 409 when the pair has an ActiveTrade; for a pair with neither
\* PairState nor ActiveTrade, 404 when its lock is free and 409 when it is
\* held; no buy is started in any of these cases.
C13_UnknownIs404WhenUnlocked ==
  [][\A raw \in BuyRequests :
       PostBuy(raw) =>
         /\ (AddrOf(raw) \in DOMAIN activeTrades =>
               response'.status = 409 /\ NothingStarted)
         /\ (AddrOf(raw) \notin DOMAIN computedPairData
               /\ AddrOf(raw) \notin DOMAIN activeTrades =>
               /\ response'.status = IF executing[AddrOf(raw)] THEN 409 ELSE 404
               /\ NothingStarted)]_vars

\* A POST /buy on a pair with an open position was just refused.
C13_Witness ==
  /\ response = SendJson(409, [error |-> "Already have an active trade",
                                pairAddress |-> "0xa"])
  /\ "0xa" \in DOMAIN activeTrades
  /\ \A p \in Pairs : running[p] = <<>>

\* The well-formed POST /sell bodies: a pair address and a percent in 1..100.
SellRequests ==
  {raw \in SellBodies : /\ ~ParseBody(raw).rejected
                        /\ StringField(ParseBody(raw).body, "pairAddress") # ""
                        /\ NumberField(ParseBody(raw).body, "percent", 100) \in 1..100}

\* A marketData event for pair p is processed in this step.
FeedEventOn(p) ==
  /\ FeedEvent
  /\ p \in DOMAIN computedPairData'
  /\ (p \in DOMAIN computedPairData => computedPairData'[p] # computedPairData[p])

\* While a pair's lock is held, a feed event for it evaluates nothing: no
\* action is started and the pair's trade object is not refreshed.
LockedFeedEvaluatesNothing ==
  \A p \in Pairs :
     (executing[p] /\ FeedEventOn(p)) =>
        /\ running' = running
        /\ executing' = executing
        /\ heap' = heap

\* C14 as stated: while a pair's lock is held, a feed event for the pair
\* dispatches no evaluation, and POST /buy and POST /sell naming the pair are
\* answered 409 and start nothing.
C14_LockedPairAnswers409 ==
  [][/\ LockedFeedEvaluatesNothing
     /\ \A raw \in BuyRequests :
          (PostBuy(raw) /\ executing[AddrOf(raw)]) =>
             response'.status = 409 /\ NothingStarted
     /\ \A raw \in SellRequests :
          (PostSell(raw) /\ executing[AddrOf(raw)]) =>
             response'.status = 409 /\ NothingStarted]_vars

\* C14, amended: as stated for feed events and POST /buy; POST /sell naming a
\* locked pair is answered 409 when the pair has an ActiveTrade and 404 when
\* it has none (a buy is in flight), and starts nothing either way.
C14_LockedPairStartsNothing ==
  [][/\ LockedFeedEvaluatesNothing
     /\ \A raw \in BuyRequests :
          (PostBuy(raw) /\ executing[AddrOf(raw)]) =>
             response'.status = 409 /\ NothingStarted
     /\ \A raw \in SellRequests :
          (PostSell(raw) /\ executing[AddrOf(raw)]) =>
             /\ response'.status =
                  IF AddrOf(raw) \in DOMAIN activeTrades THEN 409 ELSE 404
             /\ NothingStarted]_vars

\* A request naming 0xa was refused because the pair was executing, the lock
\* is still held by the action that has been in flight since, and two feed
\* events for 0xa have been aggregated.
C14_Witness ==
  /\ response = SendJson(409, [error |-> "Trade is already executing",
                               pairAddress |-> "0xa"])
  /\ executing["0xa"]
  /\ tradeLog = EmptyTradeLog
  /\ totalUpdateCount = 2
  /\ "0xa" \in DOMAIN computedPairData
  /\ computedPairData["0xa"].groups[100].buy_count = 2

\* The pairs a response of POST /sell-all reports as "sold".
ReportedSold(r) ==
  IF "results" \in DOMAIN r.body
    THEN {r.body.results[k].pairAddress :
            k \in {j \in DOMAIN r.body.results : r.body.results[j].status = "sold"}}
    ELSE {}

\* C15: once a POST /sell-all is handled, a 100 % sell is in flight on every
\* position that was open, and a response it sends reports "sold" only for
\* pairs on which it executed a sell; in particular a request that started no
\* sell at all reports no pair as sold.
C15_SellAllSellsEveryPosition ==
  [][PostSellAll =>
       /\ \A p \in DOMAIN activeTrades :
             \E i \in 1..Len(running'[p]) :
                /\ running'[p][i].kind = "sell"
                /\ running'[p][i].actionPercent = 100
       /\ (running' = running => ReportedSold(response') = {})]_vars

\* C16: a POST to /sell, /buy or /config whose body is not valid JSON is
\* answered with status 400 and leaves config, trade state and locks as they
\* were.
C16_InvalidJsonIs400 ==
  [][\A raw \in {r \in BuyBodies \cup SellBodies \cup ConfigBodies : ParseBody(r).rejected} :
       (PostBuy(raw) \/ PostSell(raw) \/ PostConfig(raw)) =>
          /\ response'.status = 400
          /\ UNCHANGED <<config, activeTrades, heap, inactiveTrades, executing, running,
                         snapshot>>]_vars

\* C17: every record of inactiveTrades, whichever path archived it, carries
\* realized_pnl_eth = its own eth_sold - its own eth_spent.
C17_RealizedPnlOfEveryRecord ==
  \A k \in 1..Len(inactiveTrades) :
     inactiveTrades[k].realized_pnl_eth =
        inactiveTrades[k].trade.eth_sold - inactiveTrades[k].trade.eth_spent

\* A position closed by a full exit that brought proceeds.
C17_Witness ==
  \E k \in 1..Len(inactiveTrades) :
     /\ inactiveTrades[k].close_reason = Undefined
     /\ inactiveTrades[k].trade.eth_sold > 0
     /\ inactiveTrades[k].trade.eth_spent > 0

\* main() loads the snapshot in this step.
Loads == recon.pc = "off" /\ recon'.pc # "off"

C19_LegacySnapshotLoaded ==
  [][(Loads /\ snapshot.exists /\ "activeTrades" \notin DOMAIN snapshot.json) =>
        /\ DOMAIN activeTrades' = DOMAIN snapshot.json \ {"summary"}
        /\ \A p \in DOMAIN activeTrades' : heap'[activeTrades'[p]] = snapshot.json[p]
        /\ inactiveTrades' = <<>>]_vars

\* A flat snapshot with two trades and a "summary" key has just been loaded.
C19_Witness ==
  /\ recon.booting
  /\ recon.pc = "balance"
  /\ DOMAIN snapshot.json = {"0xa", "0xb", "summary"}
  /\ DOMAIN activeTrades = {"0xa", "0xb"}
  /\ recon.pairs = <<"0xa", "0xb">>
  /\ inactiveTrades = <<>>

\* The action percentage the claim gives for each return value.
ClaimedPercent ==
  RetFalse :> 0 @@ RetNum(0) :> 0 @@ RetNum(50) :> 50 @@ RetNum(100) :> 100
    @@ RetTrue :> 100 @@ RetNum(150) :> 100 @@ RetNum(0 - 10) :> 0 @@ RetNaN :> 0

\* C20: when a feed event leads to an evaluation (the pair is not locked and,
\* for an entry, a position is free) and the predicate returns r, then for r
\* among false, 0, -10 and NaN nothing is started, and otherwise a buy (no
\* position on the pair) or a sell (position open) is started with action
\* percentage 50 for 50 and 100 for 100, true and 150.
C20_ActionPercents ==
  [][\A r \in DOMAIN ClaimedPercent :
       LET p == ValuesEvent.pairAddress
           open == p \in DOMAIN activeTrades
       IN (/\ MarketData(ValuesEvent, <<r>>)
           /\ ~executing[p]
           /\ ~paused
           /\ (open \/ Cardinality(DOMAIN activeTrades) < config.maxPositions)) =>
             IF ClaimedPercent[r] = 0
               THEN running' = running /\ executing' = executing
               ELSE /\ Len(running'[p]) = Len(running[p]) + 1
                    /\ Last(running'[p]).actionPercent = ClaimedPercent[r]
                    /\ Last(running'[p]).kind = (IF open THEN "sell" ELSE "buy")
                    /\ executing'[p]]_vars

\* A position entered at 50 % is being exited at 100 %.
C20_Witness ==
  /\ "0xa" \in DOMAIN activeTrades
  /\ heap[activeTrades["0xa"]].eth_spent = EthAmount(config, 50)
  /\ Len(running["0xa"]) = 1
  /\ running["0xa"][1].kind = "sell"
  /\ running["0xa"][1].actionPercent = 100

\* ------------------------------------------- specification: aggregation
\* A field of a feed message as it arrives: a number, a text that holds no
\* number, or nothing.
Number(n) == [text |-> "number", value |-> n]
NotANumber == [text |-> "abc", value |-> 0]
Absent == [text |-> "", value |-> 0]

\* parseFloat(field || 0): the number, 0 for a missing field (the "|| 0"
\* default), NaN for a text that holds no number.
ParseFloat(field) ==
  IF field.text = "number" THEN field.value
  ELSE IF field.text = "" THEN 0
  ELSE NaN

\* if (lastPrice <= 0) return;
Dropped(lastPrice) == LessOrEqual(lastPrice, 0)

\* The marketData handler with processPairUpdate: the event is counted, its
\* fields are normalized, it is dropped when lastPrice <= 0 and integrated
\* otherwise.
ProcessPairUpdate(update, res) ==
  LET lastPrice == ParseFloat(update.last_price)
  IN IF Dropped(lastPrice)
       THEN /\ totalUpdateCount' = totalUpdateCount + 1
            /\ UNCHANGED <<config, paused, computedPairData, activeTrades, heap,
                           inactiveTrades, executing, running, recon, approved,
                           chainNonce, chainBalance, tradeLog, snapshot, requestCount,
                           pairCustomData, compiledFuncs,
                 compileErrors, response>>
       ELSE MarketData(Event(update.pairAddress, lastPrice, update.minute_key,
                             ParseFloat(update.buy_volume),
                             ParseFloat(update.sell_volume),
                             ParseFloat(update.liquidity)), res)

\* A policy whose entry predicate counts its calls in ctx.customData.n and
\* never enters.
CountPolicy == [id |-> "count", entryFunc |-> "count", exitFunc |-> "none"]

\* The agent runs that policy and keeps two groups per pair; the feed
\* reports one pair, with prices that rise and fall, a zero price, a price
\* that is no number, and minute keys that arrive in any order.
AggregationPair == "0xa"
AggregationConfig ==
  [DefaultConfig(DefaultMaxPositions, <<CountPolicy>>) EXCEPT !.maxGroups = 2]
AggregationPrices == {Number(90), Number(100), Number(110), Number(0), NotANumber}
AggregationMinuteKeys == {99, 100, 101}
AggregationNow == {101, 132}

InitAggregation == InitWith(AggregationConfig)

AggregationFeed ==
  /\ totalUpdateCount < MaxStimuli
  /\ \E price \in AggregationPrices, minuteKey \in AggregationMinuteKeys :
       ProcessPairUpdate([pairAddress |-> AggregationPair, last_price |-> price,
                          minute_key |-> minuteKey, buy_volume |-> Number(1),
                          sell_volume |-> Absent, liquidity |-> Number(10)],
                         <<RetFalse>>)

AggregationCleanup ==
  /\ requestCount < MaxStimuli
  /\ \E nowMinuteKey \in AggregationNow : CleanupOldGroups(nowMinuteKey)

NextAggregation == AggregationFeed \/ AggregationCleanup

SpecAggregation == InitAggregation /\ [][NextAggregation]_vars

\* Every group of every PairState, as <<pair, key>>.
AllGroups ==
  {<<p, k>> \in Pairs \X (AggregationMinuteKeys \cup {0}) :
     p \in DOMAIN computedPairData /\ k \in DOMAIN computedPairData[p].groups}

GroupAt(pk) == computedPairData[pk[1]].groups[pk[2]]

\* C21: in every reachable state every group of every PairState has
\* min_price <= first_price <= max_price and min_price <= last_price <=
\* max_price, whatever accepted feed events arrived and in whatever order of
\* minute keys.
C21_GroupPricesWithinBounds ==
  \A pk \in AllGroups :
     LET g == GroupAt(pk)
     IN /\ LessOrEqual(g.min_price, g.first_price)
        /\ LessOrEqual(g.first_price, g.max_price)
        /\ LessOrEqual(g.min_price, g.last_price)
        /\ LessOrEqual(g.last_price, g.max_price)

\* A run of cleanupOldGroups (the only step of SpecAggregation that counts
\* as a request).
CleanupRuns == requestCount' = requestCount + 1

\* C22: right after a run of cleanupOldGroups every remaining PairState has
\* at most config.maxGroups groups, the groups it keeps are unchanged, and
\* every group it lost has a smaller key than every group it kept.
C22_CleanupKeepsNewestGroups ==
  [][CleanupRuns =>
       \A p \in DOMAIN computedPairData' :
          LET before == computedPairData[p].groups
              after == computedPairData'[p].groups
          IN /\ Cardinality(DOMAIN after) <= config'.maxGroups
             /\ DOMAIN after \subseteq DOMAIN before
             /\ \A k \in DOMAIN after : after[k] = before[k]
             /\ \A k \in DOMAIN after, r \in DOMAIN before \ DOMAIN after : r < k
             /\ (Cardinality(DOMAIN before) >= config.maxGroups
                   => Cardinality(DOMAIN after) = config.maxGroups)]_vars

\* Three groups arrived, the oldest last; cleanup dropped it and kept two.
C22_Witness ==
  /\ requestCount = 1
  /\ AggregationPair \in DOMAIN computedPairData
  /\ computedPairData[AggregationPair].last_group_key = 99
  /\ DOMAIN computedPairData[AggregationPair].groups = {100, 101}

\* C26: for every pair last_group_key never decreases: an accepted feed
\* event whose group key is older than the pair's last_group_key updates or
\* creates that older group and leaves last_group_key unchanged.
C26_LastGroupKeyNeverDecreases ==
  [][\A p \in DOMAIN computedPairData \cap DOMAIN computedPairData' :
       computedPairData'[p].last_group_key >= computedPairData[p].last_group_key]_vars

\* cleanupOldGroups deletes the PairState of p in this step.
Evicted(p) == p \in DOMAIN computedPairData /\ p \notin DOMAIN computedPairData'

\* A feed event creates the PairState of p in this step.
SeenAnew(p) == p \notin DOMAIN computedPairData /\ p \in DOMAIN computedPairData'

\* C27: when cleanup evicts a PairState the pair's customData is dropped
\* with it, and when a pair is seen anew its predicates start from an empty
\* customData: the counting predicate, run once, leaves customData.n = 1.
C27_EvictionDropsCustomData ==
  [][\A p \in Pairs :
       /\ (Evicted(p) => p \notin DOMAIN pairCustomData')
       /\ (SeenAnew(p) => pairCustomData'[p].n = 1)]_vars

\* The process ends in this step (process.exit(0) of the SIGINT handler).
ProcessEnds == recon.pc # "off" /\ recon'.pc = "off"

\* An entry or exit action is in flight.
InFlight == \E p \in Pairs : running[p] # <<>>

\* C23: an entry or exit action that is in flight when the shutdown signal
\* is handled is not cancelled: the process ends only when no action is in
\* flight any more, its outcome being in the trade state and the snapshot.
C23_ShutdownWaitsForActions == [][ProcessEnds => ~InFlight]_vars

\* C24: the snapshot is rewritten atomically: when the process stops at any
\* point during saveTrades the file holds the complete previous state or the
\* complete new state, so the following loadTrades starts from one of them.
C24_SnapshotRewrittenAtomically ==
  [][ProcessEnds =>
        /\ snapshot' \in {snapshot, SaveTrades(activeTrades, heap, inactiveTrades)}
        /\ LoadTrades(snapshot') \in
             {LoadTrades(snapshot), TradeState(activeTrades, heap, inactiveTrades)}]_vars

\* An action on p returns in this step (its finally block frees the lock).
Returns(p) == Len(running'[p]) < Len(running[p])

\* C25: every buy or sell action that acquired the pair lock ends by
\* appending exactly one entry, with status SUCCESS, FAILED or ERROR, to the
\* trade log (the step in which it returns writes one line for its pair, and
\* no other step writes any), an exit that closes the trade because the
\* balance is zero included.
C25_EveryActionEndsWithOneLogEntry ==
  [][/\ \A p \in Pairs :
          Returns(p) => /\ tradeLog'.len = tradeLog.len + 1
                        /\ tradeLog'.last.pairAddress = p
                        /\ tradeLog'.last.status \in {"SUCCESS", "FAILED", "ERROR"}
     /\ (\A p \in Pairs : ~Returns(p)) => tradeLog' = tradeLog]_vars

\* The action on p is inside the loop of sendTransactionWithRetry.
InRetryLoop(t) == t.pc \in {"send", "renonce"}

\* A transaction of the wallet confirmed in this step.
Confirms == chainNonce' = chainNonce + 1

\* C28: sendTransactionWithRetry makes at most 3 submission attempts.  An
\* attempt that confirms ends the loop with its receipt; the loop goes on
\* after a failed attempt only if the error was nonce-too-low / nonce-expired
\* or a network error, and a new attempt is made only after fewer than 3;
\* after any other error, and after the third failed attempt, the action
\* leaves the loop with the error (it ends with a FAILED or ERROR entry).
C28_AtMostThreeAttempts ==
  [][\A p \in Pairs :
       (Len(running[p]) = 1 /\ InRetryLoop(running[p][1])) =>
          LET t == running[p][1]
              stays == running'[p] # <<>> /\ InRetryLoop(running'[p][1])
                         /\ running'[p][1].stage = t.stage
              u == running'[p][1]
          IN /\ t.attempts \in 1..MaxRetries
             /\ (Confirms /\ running'[p] # running[p]) => ~stays
             /\ (stays /\ u # t) =>
                   /\ u.lastError \in {"nonce", "network"}
                   /\ u.attempts \in {t.attempts, t.attempts + 1}
                   /\ u.attempts <= MaxRetries
                   /\ (u.pc = "send" /\ t.pc = "send") => u.attempts = t.attempts + 1
                   /\ (t.pc = "renonce") => (u.pc = "send" /\ u.attempts = t.attempts + 1)
             /\ (~stays /\ ~Confirms /\ running'[p] # running[p]) =>
                   /\ Returns(p)
                   /\ tradeLog'.last.pairAddress = p
                   /\ tradeLog'.last.status \in Failure]_vars

\* The third attempt is about to be made after a network error.
C28_Witness ==
  \E p \in Pairs :
     /\ Len(running[p]) = 1
     /\ running[p][1].pc = "send"
     /\ running[p][1].attempts = MaxRetries
     /\ running[p][1].lastError = "network"

\* The action on p has entered performSwap, or enters it in this step after
\* its last approval confirmed.
InPerformSwap(p) ==
  /\ Len(running[p]) = 1
  /\ running[p][1].stage = "swap" \/ Confirms

\* C29: performSwap never throws to its caller: whatever the protocol of the
\* trade data (V2, V3, V4 or none set) and whatever fails while the swap is
\* built, submitted or parsed, the caller gets a result; an action that ends
\* inside performSwap ends in its SUCCESS or its FAILED branch (success =
\* false), never in its catch block (ERROR), and a failure leaves trade state
\* to the caller's FAILED branch.
C29_PerformSwapNeverThrows ==
  [][\A p \in Pairs :
       (InPerformSwap(p) /\ Returns(p)) =>
          /\ tradeLog'.len = tradeLog.len + 1
          /\ tradeLog'.last.pairAddress = p
          /\ tradeLog'.last.status \in {"SUCCESS", "FAILED"}]_vars

\* A sell of a trade without protocol flags ended in the FAILED branch.
C29_Witness ==
  /\ tradeLog.last.type = "SELL"
  /\ tradeLog.last.status = "FAILED"
  /\ SwapPair \in DOMAIN activeTrades
  /\ ~heap[activeTrades[SwapPair]].isV2
  /\ ~heap[activeTrades[SwapPair]].isV3
  /\ ~heap[activeTrades[SwapPair]].isV4

\* C30: when the balance read for a trade fails during reconciliation, that
\* trade is unchanged (still active, with the same tokens_in_possession and
\* raw amount), nothing is added to inactiveTrades, and reconciliation goes
\* on with the next pair that has a trade, or ends if there is none.
C30_FailedBalanceReadChangesNothing ==
  [][ReconBalanceRead("throws") =>
       LET rest == SkipClosed(Tail(recon.pairs), activeTrades)
       IN /\ activeTrades' = activeTrades
          /\ inactiveTrades' = inactiveTrades
          /\ \A p \in DOMAIN activeTrades : heap'[activeTrades'[p]] = heap[activeTrades[p]]
          /\ recon'.changed = recon.changed \/ rest = <<>>
          /\ IF rest = <<>>
               THEN recon'.pc = "idle"
               ELSE /\ recon'.pc = "balance"
                    /\ recon'.pairs = rest
                    /\ recon'.trade = activeTrades[Head(rest)]]_vars

\* The read for 0xa failed: both trades are still active and untouched, and
\* the run is at the read for 0xb.
C30_Witness ==
  /\ recon.pc = "balance"
  /\ recon.pairs = <<"0xb">>
  /\ ~recon.changed
  /\ DOMAIN activeTrades = {"0xa", "0xb"}
  /\ heap[activeTrades["0xa"]] = LegacyTrade("0xa")
  /\ inactiveTrades = <<>>


\* ------------------------------------ specification: policy order
\* Four policies in config order: one whose entryFunc source does not
\* compile, one that can enter, one that counts its evaluations in
\* ctx.customData.n, and another one that can enter.
EnterPolicy(id) == [id |-> id, entryFunc |-> "enter", exitFunc |-> "none"]

BrokenPolicy == [id |-> "p0", entryFunc |-> "broken", exitFunc |-> "none"]

PoliciesConfig ==
  DefaultConfig(DefaultMaxPositions,
                <<BrokenPolicy, EnterPolicy("p1"), CountPolicy, EnterPolicy("p3")>>)

PoliciesEvent == Event("0xa", 100, 100, 1, 0, 10)

InitPolicies == InitWith(PoliciesConfig)

PoliciesFeed ==
  /\ totalUpdateCount < MaxStimuli
  /\ \E res \in [1..Len(config.policies) -> EnterResults] : MarketData(PoliciesEvent, res)

PoliciesStep ==
  \E i \in 1..1 :
     \/ AllowanceReturns(PoliciesEvent.pairAddress, i, {"ok"})
     \/ GetNonceReturns(PoliciesEvent.pairAddress, i)
     \/ TxSettles(PoliciesEvent.pairAddress, i, {"confirmed"})

NextPolicies == PoliciesFeed \/ PoliciesStep

SpecPolicies == InitPolicies /\ [][NextPolicies]_vars

\* customData.n of pair p in the given pairCustomData (0 when absent).
CountOf(pcd, p) == IF p \in DOMAIN pcd THEN pcd[p].n ELSE 0

\* The entry predicates that run when the loop stops at policy k (0: at the
\* end) and that count their evaluations.
CountedUpTo(policies, k) ==
  Cardinality({i \in 1..Len(policies) :
                 policies[i].entryFunc = "count" /\ (k = 0 \/ i < k)})

\* C31: one evaluation cycle for a pair starts at most one entry.  With the
\* entry predicates returning res, the first policy in config order whose
\* result gives an action percent > 0 starts the buy, under its id, and no
\* later policy's predicate is evaluated (the counting predicate has not run
\* when an earlier policy fired); with no such policy nothing is started.
C31_FirstFiringPolicyEnters ==
  [][\A res \in [1..Len(config.policies) -> EnterResults] :
       LET p == PoliciesEvent.pairAddress
           firing == {i \in 1..Len(config.policies) : res[i] = RetTrue}
           k == IF firing = {} THEN 0
                ELSE CHOOSE i \in firing : \A j \in firing : i <= j
       IN (/\ MarketData(PoliciesEvent, res)
           /\ ~executing[p]
           /\ p \notin DOMAIN activeTrades
           /\ ~paused) =>
            /\ Len(running'[p]) <= Len(running[p]) + 1
            /\ CountOf(pairCustomData', p)
                 = CountOf(pairCustomData, p) + CountedUpTo(config.policies, k)
            /\ IF k = 0
                 THEN running' = running
                 ELSE /\ BuyStarts(p)
                      /\ Started(p).policy_id = config.policies[k].id
                      /\ Started(p).actionPercent = 100]_vars

\* The third policy entered after the first declined and the counting
\* predicate ran, for the second time.
C31_Witness ==
  /\ Len(running["0xa"]) = 1
  /\ running["0xa"][1].policy_id = "p3"
  /\ CountOf(pairCustomData, "0xa") = 2
  /\ totalUpdateCount = 2

\* The predicates of the config whose source does not compile, by key.
BrokenKeys ==
  {CompileKey(config.policies[i], TRUE) :
     i \in {j \in 1..Len(config.policies) : ~Compiles(config.policies[j].entryFunc)}}
  \cup {CompileKey(config.policies[i], FALSE) :
          i \in {j \in 1..Len(config.policies) : ~Compiles(config.policies[j].exitFunc)}}

\* C32: over any number of evaluations the compile failure of a predicate is
\* attempted and logged only once: the process logs at most one compile
\* error per predicate whose source does not compile.
C32_CompileFailureLoggedOnce == compileErrors <= Cardinality(BrokenKeys)

\* Minutes between the clock and the newest group of pair p.
NewestGroupAge(nowMinuteKey, p) ==
  nowMinuteKey - LastGroupKey(DOMAIN computedPairData[p].groups)

\* C33: a cleanup pass never deletes a PairState that has an ActiveTrade,
\* and it deletes exactly the PairStates without an ActiveTrade whose newest
\* group is more than 30 minutes old; one whose newest group is exactly 30
\* minutes old is kept.
C33_CleanupDeletesStalePairs ==
  [][\A nowMinuteKey \in NowMinuteKeys :
       CleanupOldGroups(nowMinuteKey) =>
         \A p \in DOMAIN computedPairData :
            p \in DOMAIN computedPairData'
              <=> (p \in DOMAIN activeTrades \/ NewestGroupAge(nowMinuteKey, p) <= 30)]_vars

\* Both pairs were last updated more than 30 minutes before the pass: the
\* one with an ActiveTrade is still there, the other one is gone (its
\* customData shows that it had been seen).
C33_Witness ==
  /\ "0xa" \in DOMAIN activeTrades
  /\ DOMAIN computedPairData = {"0xa"}
  /\ "0xb" \in DOMAIN pairCustomData

\* C33 as stated: a cleanup pass never deletes a PairState that has an
\* ActiveTrade, and deletes every PairState without one whose newest group
\* is at least 30 minutes old.
C33_CleanupDeletesAtThirtyMinutes ==
  [][\A nowMinuteKey \in NowMinuteKeys :
       CleanupOldGroups(nowMinuteKey) =>
         \A p \in DOMAIN computedPairData :
            /\ (p \in DOMAIN activeTrades => p \in DOMAIN computedPairData')
            /\ (p \notin DOMAIN activeTrades /\ NewestGroupAge(nowMinuteKey, p) >= 30
                  => p \notin DOMAIN computedPairData')]_vars

\* ------------------------------------- specification: swap receipts
\* One pair, reported by the feed as a V2, V3 or V4 pool, whose swaps are
\* confirmed with receipts of up to two logs: transfers to the wallet of the
\* amount paid out or of one unit, transfers to someone else, Swap events.
ReceiptPair == "0xa"

ReceiptLogs(t, r) ==
  {TransferLog("wallet", r), TransferLog("wallet", 1), TransferLog("other", r),
   SwapLog(t.amountIn, 0 - r), SwapLog(0 - r, t.amountIn)}

LoggedReceipts(t) ==
  UNION {{Receipt(r, logs) :
            logs \in {<<>>} \cup {<<l>> : l \in ReceiptLogs(t, r)}
                           \cup {<<l, m>> : l \in ReceiptLogs(t, r),
                                            m \in ReceiptLogs(t, r)}} :
           r \in SwapOuts(t)}

InitReceipts == InitWith(DefaultConfig(DefaultMaxPositions, <<AnyPolicy>>))

ReceiptFeed ==
  /\ totalUpdateCount < MaxStimuli
  /\ \E chain \in SwapChains, res \in [1..Len(config.policies) -> AnyResults] :
       MarketData([Event(ReceiptPair, 100, 100, 1, 0, 10) EXCEPT !.chain = chain], res)

ReceiptStep ==
  \E i \in 1..1 :
     \/ BalanceOfReturns(ReceiptPair, i)
     \/ AllowanceReturns(ReceiptPair, i, {"ok"})
     \/ GetNonceReturns(ReceiptPair, i)
     \/ /\ i \in 1..Len(running[ReceiptPair])
        /\ TxSettlesWith(ReceiptPair, i, {"confirmed"},
                         LoggedReceipts(running[ReceiptPair][i]))

NextReceipts == ReceiptFeed \/ ReceiptStep

SpecReceipts == InitReceipts /\ [][NextReceipts]_vars

\* The swap of the action in flight on the pair is confirmed with a receipt
\* that holds these logs.
SwapConfirmedWith(receipt) ==
  /\ running[ReceiptPair] # <<>>
  /\ running[ReceiptPair][1].stage = "swap"
  /\ TxSettlesWith(ReceiptPair, 1, {"confirmed"}, {receipt})

\* The amount of the last transfer to the wallet among the logs.
LastWalletTransfer(logs) ==
  logs[CHOOSE j \in WalletTransfers(logs) : \A k \in WalletTransfers(logs) : k <= j].amount

\* C34: on the V2 path, when the receipt of a buy holds several Transfer logs
\* whose recipient is the wallet, the swap result is taken from the last of
\* them: the new trade's raw token amount is that log's amount.
C34_V2ResultFromLastTransfer ==
  [][running[ReceiptPair] # <<>> =>
       LET p == ReceiptPair
           t == running[p][1]
       IN \A receipt \in LoggedReceipts(t) :
            (/\ SwapConfirmedWith(receipt)
             /\ t.kind = "buy"
             /\ IsV2(p, t)
             /\ Cardinality(WalletTransfers(receipt.logs)) > 1) =>
               /\ p \in DOMAIN activeTrades'
               /\ heap'[activeTrades'[p]].tokens_in_possession_hex
                    = LastWalletTransfer(receipt.logs)]_vars

\* The decimals of the base token and of the traded token of a trade or
\* pair (`|| 18` for a missing value).
DecimalsOf(md, token) ==
  LET d == IF token = md.token0 THEN md.token0Decimals ELSE md.token1Decimals
  IN IF d = 0 THEN EtherDecimals ELSE d

BaseTokenDecimals(md) == DecimalsOf(md, DetectBaseToken(md.token0, md.token1))

TradedTokenDecimals(md) ==
  DecimalsOf(md, IF md.token0 = DetectBaseToken(md.token0, md.token1)
                   THEN md.token1 ELSE md.token0)

\* C35: the readable output amount of every swap is computed with the
\* decimals of the token received: a new trade's tokens_bought is its raw
\* amount scaled by the traded token's decimals, and a sell adds to eth_sold
\* the raw base-token amount of its receipt scaled by the base token's
\* decimals.
C35_OutputUsesReceivedTokenDecimals ==
  [][\A p \in DOMAIN activeTrades' :
       LET after == heap'[activeTrades'[p]]
       IN IF p \notin DOMAIN activeTrades
            THEN after.tokens_bought
                   = FormatTokenAmount(after.tokens_in_possession_hex,
                                       TradedTokenDecimals(after))
            ELSE LET before == heap[activeTrades[p]]
                 IN after.eth_sold # before.eth_sold =>
                      \E r \in SellOuts :
                         after.eth_sold = before.eth_sold
                                            + FormatTokenAmount(r, BaseTokenDecimals(before))]_vars

\* ------------------------------------------- specification: startup
\* The process starts on any of the initial snapshot files; once it serves,
\* the feed reports one pair and the control server gets status and sell
\* requests.
StartupControl ==
  /\ Serving
  /\ totalUpdateCount + requestCount < MaxStimuli
  /\ \/ GetStatus
     \/ \E raw \in SellBodies : PostSell(raw)

NextStartup ==
  Main \/ RestartFeed \/ StartupControl \/ RestartStep
       \/ ReconBalanceReturns \/ ReconDecimalsReturns

SpecStartup == InitRestart /\ [][NextStartup]_vars

\* main has not got past `await checkTradeBalances()` (line 1903).
StartingUp == recon.pc = "off" \/ recon.booting

\* C36: until the trades of the snapshot are loaded and the reconciliation
\* run over them has ended, no feed event is aggregated, no control request
\* is answered and no action is started; when the run ends every loaded
\* trade is either still active or archived by the run.
C36_ReconciledBeforeServing ==
  [][StartingUp =>
       /\ totalUpdateCount' = totalUpdateCount
       /\ computedPairData' = computedPairData
       /\ requestCount' = requestCount
       /\ response' = response
       /\ running' = running
       /\ (~StartingUp' =>
             \A p \in DOMAIN LoadTrades(snapshot).activeTrades :
                \/ p \in DOMAIN activeTrades'
                \/ \E k \in 1..Len(inactiveTrades') :
                      /\ inactiveTrades'[k].trade.pairAddress = p
                      /\ inactiveTrades'[k].close_reason = "zero_balance")]_vars

\* The feed's first event is aggregated after the startup run archived one of
\* the two loaded trades and kept the other.
C36_Witness ==
  /\ totalUpdateCount = 1
  /\ DOMAIN computedPairData = {RestartPair}
  /\ Len(inactiveTrades) = 1
  /\ inactiveTrades[1].close_reason = "zero_balance"
  /\ Cardinality(DOMAIN activeTrades) = 1

\* --------------------------------------- specification: lock release
\* Both pairs trade through the one wallet; entries and full exits are
\* started by the policy, and POST /sell asks for one percent of the position
\* on the first pair; every call an action awaits can return or fail in each
\* way the code tells apart.
InitLock == InitWith(DefaultConfig(DefaultMaxPositions, <<AnyPolicy>>))

LockFeed ==
  /\ totalUpdateCount + requestCount < MaxStimuli
  /\ \E p \in Pairs, res \in [1..Len(config.policies) -> EnterResults] :
       MarketData(Event(p, 100, 100, 1, 0, 10), res)

LockSell ==
  /\ totalUpdateCount + requestCount < MaxStimuli
  /\ PostSell(JsonText([pairAddress |-> "0xa", percent |-> 1]))

\* The call the action in flight on pair p awaits returns or fails.
AwaitedCallSettles(p) ==
  \/ BalanceOfReturns(p, 1)
  \/ AllowanceReturns(p, 1, {"ok"})
  \/ GetNonceReturns(p, 1)
  \/ TxSettles(p, 1, RetryOutcomes)
  \/ RenonceReturns(p, 1)

LockStep == \E p \in Pairs : AwaitedCallSettles(p)

NextLock == LockFeed \/ LockSell \/ LockStep

SpecLock == InitLock /\ [][NextLock]_vars

\* Every call an action awaits eventually returns or fails.
SpecLockFair == SpecLock /\ \A p \in Pairs : WF_vars(AwaitedCallSettles(p))

\* C37: every entry or exit action that acquires a pair's execution lock
\* eventually releases it, provided each call it awaits eventually returns
\* or fails.
C37_LockEventuallyReleased == \A p \in Pairs : executing[p] ~> ~executing[p]

\* A sell that threw has released the lock of its pair.
C37_Witness ==
  /\ tradeLog.last.type = "SELL"
  /\ tradeLog.last.status = "ERROR"
  /\ ~executing[tradeLog.last.pairAddress]
  /\ tradeLog.last.pairAddress \in DOMAIN activeTrades

\* C38: each ActiveTrade is archived at most once: every record added to
\* inactiveTrades closes a position that is open at that moment, for any
\* interleaving of an exit in flight with a reconciliation run.
C38_ArchivedAtMostOnce ==
  [][Len(inactiveTrades') > Len(inactiveTrades) =>
       /\ Len(inactiveTrades') = Len(inactiveTrades) + 1
       /\ \E p \in DOMAIN activeTrades \ DOMAIN activeTrades' :
             inactiveTrades'[Len(inactiveTrades')].trade.pairAddress = p]_vars

\* C39: the entry_price of a newly created ActiveTrade is the pair's
\* last_price at the moment the entry was triggered.  In the breakout
\* scenario only the second update (last_price 1.3) starts a buy, so every
\* trade created has entry_price 1.3, whatever arrives while the buy awaits
\* its approval and swap.
C39_EntryPriceIsTriggerPrice ==
  [][/\ (BuyStarts(ScenarioPair) =>
           computedPairData'[ScenarioPair].last_price = ScenarioEvents[2].last_price)
     /\ (TradeCreated(ScenarioPair) =>
           heap'[activeTrades'[ScenarioPair]].entry_price
             = ScenarioEvents[2].last_price)]_vars

\* C40: when a reconciliation run overlaps a partial sell on the same pair,
\* a balance read before the sell confirmed is never written over the
\* post-sell value: a run that finds the open trade's raw amount equal to the
\* on-chain balance leaves it equal to the on-chain balance.
C40_ReconKeepsPostSellBalance ==
  [][(/\ ReconDecimalsReturns
      /\ Head(recon.pairs) \in DOMAIN activeTrades'
      /\ activeTrades'[Head(recon.pairs)] = recon.trade
      /\ heap[recon.trade].tokens_in_possession_hex = chainBalance[Head(recon.pairs)]) =>
        heap'[recon.trade].tokens_in_possession_hex = chainBalance'[Head(recon.pairs)]]_vars

====
